--------------------------- MODULE CommandRequest ---------------------------
(* A request of several statements: what the Set button sends for a grid of *)
(* free values (vyatta-cli-command.js), on its way through the process that *)
(* serves it (main.cc, manager.cc, sessionexchangestdio.cc, processor.cc,   *)
(* session.cc, command.cc). The first statement deletes the leaf, each of   *)
(* the others sets one value; between two of them the windows of a user,    *)
(* who share a session, may run theirs. Lengths are in units of text; my_set and*)
(* my_delete are steps of their own, as the code sees them (external).      *)
EXTENDS Naturals, SequencesExt

CONSTANTS
  Window, Value,
  Kind,         \* what becomes of a value, see KindOf
  Size,         \* the length of the line that sets a value
  Frame,        \* the length of everything else, the delete statement included
  Line,         \* the length from which a line does not fit fgets's buffer
  Buffer,       \* _REQ_BUFFER_SIZE
  RequestLimit, \* _request_limit
  Delete, None,
  MaxValues, MaxRequests,   \* bounds: values in a grid, requests of a window
  MaxChanges,   \* bound: changes of what a request looks at before it runs
  MaxKills,     \* bound: requests killed
  MaxDirt       \* bound: requests with something behind their end in the buffer

\* plain: accepted. bad: refused with a message. quiet: refused without one on stdout.
\* marked: with an entity reference. broken: not well-formed in XML.
KindOf == {"plain", "bad", "quiet", "marked", "broken"}

ASSUME RequestOK ==
  /\ Kind \in [Value -> KindOf] /\ Size \in [Value -> Nat]
  /\ Line \in Nat \ {0} /\ {Frame, Buffer, RequestLimit} \subseteq Nat
  /\ Delete \notin Value /\ None \notin Window
  /\ {MaxValues, MaxRequests, MaxChanges, MaxKills, MaxDirt} \subseteq Nat

VARIABLES
  leaf,         \* the values the session has
  pc, req, code,\* of each window's request: where it is, what was sent, the answer
  pos,          \* statements run
  fact,         \* what a request looks at before it runs
  before,       \* history: the leaf when the request was sent
  alone,        \* history: nobody else has run a statement since
  deleter,      \* history: who deleted the leaf last
  sent, changes, kills, dirt

bounds  == <<sent, changes, kills, dirt>>
history == <<before, alone, deleter>>
vars == <<leaf, pc, req, code, pos, fact, history, bounds>>

Facts == {"committing", "session", "rights"}
Serving == {"read", "parse", "commit", "update", "validate", "run"}
Code == {"success", "malformed", "session", "rights", "failed", "committing"}
Text == Value \X {"whole", "head", "cut"}

----------------------------------------------------------------------------
(* What is sent, and what comes of it *)

\* Faulty: the delete statement comes last.
DeleteLast(vals, k) == IF k = Len(vals) THEN Delete ELSE vals[k + 1]

\* The statement after k others (f_sendConfFormCommand, editorgrid)
Statement(vals, k) == IF k = 0 THEN Delete ELSE vals[k]

\* Of a line that does not fit its buffer, read() drops a character for each filled.
Damaged(v) == Size[v] >= Line
Length(vals) == FoldLeft(LAMBDA n, v : n + Size[v] - (Size[v] \div Line), Frame, vals)

\* What a statement sets. expat hands over text in pieces around an entity, and each
\* piece becomes a command: the first sets what stands before it, the others nothing.
TextOf(v) ==
  <<v, IF Damaged(v) THEN "cut" ELSE IF Kind[v] = "marked" THEN "head" ELSE "whole">>

Kept(v) == Kind[v] \in {"plain", "marked"}

\* What the first n values leave in an empty leaf
Result(vals, n) == {TextOf(vals[i]) : i \in {j \in 1..n : Kept(vals[j])}}

Init ==
  /\ leaf \in SUBSET {TextOf(v) : v \in {u \in Value : Kind[u] = "plain"}}
  /\ pc = [w \in Window |-> "idle"] /\ req = [w \in Window |-> <<>>]
  /\ code = [w \in Window |-> "success"] /\ pos = [w \in Window |-> 0]
  /\ fact = [f \in Facts |-> f # "committing"]
  /\ before = [w \in Window |-> leaf] /\ alone = [w \in Window |-> FALSE]
  /\ deleter = None
  /\ sent = [w \in Window |-> 0] /\ changes = 0 /\ kills = 0 /\ dirt = 0

Goto(w, p) == pc' = [pc EXCEPT ![w] = p] /\ UNCHANGED code
Answer(w, c) == pc' = [pc EXCEPT ![w] = "answered"] /\ code' = [code EXCEPT ![w] = c]

----------------------------------------------------------------------------
(* The browser, and what changes around a request *)

Send(w) ==
  /\ pc[w] \notin Serving /\ sent[w] < MaxRequests
  /\ \E n \in 0..MaxValues : \E vals \in [1..n -> Value] : req' = [req EXCEPT ![w] = vals]
  /\ Goto(w, "read")
  /\ pos' = [pos EXCEPT ![w] = 0]
  /\ before' = [before EXCEPT ![w] = leaf] /\ alone' = [alone EXCEPT ![w] = TRUE]
  /\ sent' = [sent EXCEPT ![w] = @ + 1]
  /\ UNCHANGED <<leaf, fact, deleter, changes, kills, dirt>>

\* A commit comes or goes, the user loses or gets rights; a session goes at its timeout,
\* which is not while its commands run (module Sessions).
Change(f) ==
  /\ changes < MaxChanges
  /\ f = "session" => fact[f] /\ \A w \in Window : pc[w] # "run"
  /\ fact' = [fact EXCEPT ![f] = ~@] /\ changes' = changes + 1
  /\ UNCHANGED <<leaf, pc, req, code, pos, history, sent, kills, dirt>>

\* The process of a request is killed, by the web server's timeout or otherwise.
Kill(w) ==
  /\ pc[w] \in Serving /\ kills < MaxKills
  /\ Goto(w, "lost") /\ kills' = kills + 1
  /\ UNCHANGED <<leaf, req, pos, fact, history, sent, changes, dirt>>

----------------------------------------------------------------------------
(* The process of a request *)

\* A request beyond the limit gets no answer at all.
Read(w) ==
  /\ pc[w] = "read"
  /\ Goto(w, IF Length(req[w]) > RequestLimit THEN "lost" ELSE "parse")
  /\ UNCHANGED <<leaf, req, pos, fact, history, bounds>>

\* set_request copies what fits, and parse() fails on a request without its end.
WellFormed(vals) ==
  /\ Length(vals) <= Buffer
  /\ \A i \in DOMAIN vals : Kind[vals[i]] # "broken"

\* What a long line loses may be its value's, or its closing tag's.
Parse(w) ==
  /\ pc[w] = "parse" /\ WellFormed(req[w])
  /\ Goto(w, "commit")
  /\ UNCHANGED <<leaf, req, pos, fact, history, bounds>>

ParseFails(w) ==
  /\ pc[w] = "parse"
  /\ ~WellFormed(req[w]) \/ \E i \in DOMAIN req[w] : Damaged(req[w][i])
  /\ Answer(w, "malformed")
  /\ UNCHANGED <<leaf, req, pos, fact, history, bounds>>

\* set_request puts no end behind the text: strlen reads on in what malloc left there.
ParseFailsOnDirt(w) ==
  /\ pc[w] = "parse" /\ dirt < MaxDirt
  /\ Answer(w, "malformed") /\ dirt' = dirt + 1
  /\ UNCHANGED <<leaf, req, pos, fact, history, sent, changes, kills>>

\* Session::commit, update_session and validate_session look one after the other.
LookForCommit(w) ==
  /\ pc[w] = "commit"
  /\ IF fact["committing"] THEN Answer(w, "committing") ELSE Goto(w, "update")
  /\ UNCHANGED <<leaf, req, pos, fact, history, bounds>>

Update(w) ==
  /\ pc[w] = "update"
  /\ IF ~fact["session"] THEN Answer(w, "session")
     ELSE IF ~fact["rights"] THEN Answer(w, "rights") ELSE Goto(w, "validate")
  /\ UNCHANGED <<leaf, req, pos, fact, history, bounds>>

Validate(w) ==
  /\ pc[w] = "validate"
  /\ IF fact["session"] THEN Goto(w, "run") ELSE Answer(w, "session")
  /\ UNCHANGED <<leaf, req, pos, fact, history, bounds>>

----------------------------------------------------------------------------
(* The statements *)

AtDelete(w) == pc[w] = "run" /\ Statement(req[w], pos[w]) = Delete
AtSet(w)    == pc[w] = "run" /\ Statement(req[w], pos[w]) # Delete

\* After a statement that did not fail: the next one, or the answer
Onward(w) ==
  /\ pos' = [pos EXCEPT ![w] = @ + 1]
  /\ IF pos[w] >= Len(req[w]) THEN Answer(w, "success") ELSE Goto(w, "run")

Disturb(w) == alone' = [v \in Window |-> alone[v] /\ v = w]

RunDelete(w) ==
  /\ AtDelete(w) /\ Onward(w)
  /\ leaf' = {} /\ deleter' = w /\ Disturb(w)
  /\ UNCHANGED <<req, fact, before, bounds>>

\* There is nothing to delete, and my_delete says so.
RefuseDelete(w) ==
  /\ AtDelete(w) /\ leaf = {}
  /\ Answer(w, "failed")
  /\ UNCHANGED <<leaf, req, pos, fact, history, bounds>>

\* A status that tells of failure counts only with some output.
RunSet(w) ==
  /\ AtSet(w) /\ Onward(w)
  /\ LET v == Statement(req[w], pos[w])
     IN  /\ Kind[v] # "bad"
         /\ leaf' = IF Kept(v) THEN leaf \union {TextOf(v)} ELSE leaf
  /\ Disturb(w)
  /\ UNCHANGED <<req, fact, before, deleter, bounds>>

\* Faulty: the other statements are run nevertheless.
RefuseSetGoesOn(w) ==
  /\ AtSet(w) /\ Kind[Statement(req[w], pos[w])] = "bad"
  /\ Onward(w)
  /\ UNCHANGED <<leaf, req, fact, history, bounds>>

\* The rest of the statements is not run.
RefuseSet(w) ==
  /\ AtSet(w) /\ Kind[Statement(req[w], pos[w])] = "bad"
  /\ Answer(w, "failed")
  /\ UNCHANGED <<leaf, req, pos, fact, history, bounds>>

Run(w) == RunDelete(w) \/ RefuseDelete(w) \/ RunSet(w) \/ RefuseSet(w)
Serve(w) ==
  \/ Read(w) \/ Parse(w) \/ ParseFails(w) \/ ParseFailsOnDirt(w)
  \/ LookForCommit(w) \/ Update(w) \/ Validate(w) \/ Run(w)

Next ==
  \/ \E w \in Window : Send(w) \/ Kill(w) \/ Serve(w)
  \/ \E f \in Facts : Change(f)

Spec == Init /\ [][Next]_vars

----------------------------------------------------------------------------
(* Properties *)

\* Types; and a request that runs has a statement left.
TypeOK ==
  /\ leaf \subseteq Text
  /\ pc \in [Window -> Serving \union {"idle", "answered", "lost"}]
  /\ req \in [Window -> Seq(Value)] /\ code \in [Window -> Code]
  /\ pos \in [Window -> Nat] /\ \A w \in Window : pc[w] = "run" => pos[w] <= Len(req[w])
  /\ fact \in [Facts -> BOOLEAN]
  /\ before \in [Window -> SUBSET Text] /\ alone \in [Window -> BOOLEAN]
  /\ deleter \in Window \union {None}
  /\ sent \in [Window -> Nat] /\ {changes, kills, dirt} \subseteq Nat

\* The first value refused with a message is at place k.
Refused(vals, k) ==
  /\ Kind[vals[k]] = "bad"
  /\ \A i \in 1..(k - 1) : Kind[vals[i]] # "bad"

\* An answer tells what the session has now (Command::execute_command), unless another
\* window's statement ran meanwhile. Success: none of the values was refused with a
\* message, and the leaf has those that were sent and no other. Failed: it has those
\* before the first one refused, or was and is empty. Anything else: it is as it was.
AnswerTells ==
  \A w \in Window : pc[w] = "answered" /\ alone[w] =>
    /\ code[w] = "success" => /\ \A i \in 1..Len(req[w]) : Kind[req[w][i]] # "bad"
                             /\ leaf = Result(req[w], Len(req[w]))
    /\ code[w] = "failed" => \/ leaf = {} /\ before[w] = {}
                            \/ \E k \in 1..Len(req[w]) :
                                 Refused(req[w], k) /\ leaf = Result(req[w], k - 1)
    /\ code[w] \notin {"success", "failed"} => leaf = before[w]

\* When windows of a session set the same leaf at once, their statements mix. But the one
\* that deleted it last, and was told of success, has all its values there ("make sure
\* delete prev node before set", vyatta-cli-command.js 421).
LastComplete ==
  \A w \in Window :
    deleter = w /\ pc[w] = "answered" /\ code[w] = "success" =>
      Result(req[w], Len(req[w])) \subseteq leaf
=============================================================================
