---------------------------- MODULE ConfigEditor ----------------------------
(* The configuration tab of the web application (vyatta-tree.js,            *)
(* vyatta-panels.js, vyatta-cli-command.js): a node of the tree is clicked, *)
(* its leaves become the fields of a form, and Set sends the changed ones   *)
(* one after the other to the path of whatever node is selected then; the   *)
(* Create and Delete buttons, commit and discard send a command and reload  *)
(* the tree. A reload is answered later, and runs every handler that waits  *)
(* for one. Nodes are those under the root, without a tag (not multi).      *)
EXTENDS Naturals, SequencesExt

CONSTANTS
  Node,         \* nodes under the root, each with leaves
  Text,         \* leaves with a text, number or combo field, empty when not set
  Check,        \* leaves with enable and disable: disabled and not set look alike
  List,         \* leaves with a grid of values to check
  Leaves,       \* the leaves of each node, as the tree sorts them
  Choice,       \* the values a leaf may have
  Start,        \* the configurations to begin with
  Root, Submit, None,
  MaxClicks, MaxEdits, MaxCommands,     \* bounds: what the user does
  MaxRefused,   \* bound: commands the server refuses
  MaxOdd        \* bound: steps of the kinds this code is known not to stand

Field == Text \union Check \union List

Value == UNION {Choice[f] : f \in Field}

\* What is in flight: a field's commands, or one of the buttons'
Request ==
  [op : {"field"}, of : Field, path : Node \union Field,
   add : SUBSET Value, del : SUBSET Value]
    \union [op : {"Create", "Delete", "commit", "discard", "view"},
            of : Node \union {None}]

\* The leaves of a node are its own; they come sorted, so none comes twice.
ASSUME EditorOK ==
  /\ Leaves \in [Node -> Seq(Field)] /\ DOMAIN Choice = Field
  /\ \A n \in Node : Leaves[n] # <<>> /\ IsInjective(Leaves[n])
  /\ \A f \in Field : \E n \in Node : Contains(Leaves[n], f)
  /\ \A f \in Field, m, n \in Node :
       Contains(Leaves[m], f) /\ Contains(Leaves[n], f) => m = n
  /\ Text \intersect Check = {} /\ (Text \union Check) \intersect List = {}
  /\ {Root, Submit, None} \intersect (Node \union Field) = {}
  /\ Node \intersect Field = {} /\ Root # None /\ None \notin Request
  /\ {MaxClicks, MaxEdits, MaxCommands, MaxRefused, MaxOdd} \subseteq Nat

Owner(f)  == CHOOSE n \in Node : Contains(Leaves[n], f)
\* A value is the set of what is chosen: at most one, but for a grid.
Values(f) == {v \in SUBSET Choice[f] : f \in List \/ Cardinality(v) <= 1}

VARIABLES
  ui,           \* the tree, the form, and what is being sent
  box,          \* the message box
  asked,        \* the node the box asks about
  req,          \* the request in flight, or none
  work, active, \* the session's configuration and the active one (external)
  clicks, edits, commands, refused,
  odd           \* history: steps of the kinds listed at Odd

bounds == <<clicks, edits, commands, refused, odd>>
vars == <<ui, box, asked, req, work, active, bounds>>

\* A form: title is its node (Root without one), items its fields and the Set button as
\* they were added, base the values of when it was made, orig what Set compares with,
\* pressed the grids pressed on, flag the fields with an error. History: edited since
\* the last Set, and the grids sent once and more than once.
Empty == [f \in Field |-> {}]
NoForm == [title |-> Root, button |-> "none", items |-> <<>>, val |-> Empty, orig |-> Empty,
           base |-> Empty, pressed |-> {}, flag |-> {}, edited |-> {}, again |-> {},
           twice |-> {}]

Configs == {c \in [nodes : SUBSET Node, val : [Field -> UNION {Values(f) : f \in Field}]] :
              \A f \in Field : /\ c.val[f] \in Values(f)
                               /\ c.val[f] # {} => Owner(f) \in c.nodes}

ASSUME StartOK == Start \subseteq Configs

\* What the server says of a node (module ConfigView)
Mark(n) ==
  IF n \notin work.nodes THEN IF n \in active.nodes THEN "delete" ELSE "none"
  ELSE IF n \notin active.nodes THEN "set"
  ELSE IF \E f \in ToSet(Leaves[n]) : work.val[f] # active.val[f] THEN "active_plus"
  ELSE "active"

Marks == [n \in Node |-> Mark(n)]

\* Faulty: a node that was set before and changed does not count.
OfferedIfNew(conf) == \E n \in Node : conf[n] \in {"set", "delete"}

\* f_onRenderer
Offered(conf) == \E n \in Node : conf[n] \in {"set", "active_plus", "delete"}

\* conf is a node's attributes.configured; known the values of the leaves loaded last;
\* load what waits for a node to be loaded; handlers those of the tree's load event;
\* mine is m_selNode; avail is m_isCommitAvailable, offer what the toolbar shows; next, num, errs and sent are m_fdIndexSent and what goes with it.
Init ==
  /\ active \in Start /\ work = active
  /\ ui = [conf |-> Marks, known |-> work.val, loaded |-> {}, load |-> [n \in Node |-> {}],
           rootload |-> FALSE, handlers |-> <<>>, sel |-> None, mine |-> None,
           showLeaf |-> TRUE, form |-> NoForm, dirty |-> FALSE, avail |-> Offered(Marks),
           offer |-> Offered(Marks), next |-> 1, num |-> 0, errs |-> {}, sent |-> {}]
  /\ box = "none" /\ asked = None /\ req = None
  /\ clicks = 0 /\ edits = 0 /\ commands = 0 /\ refused = 0 /\ odd = 0

----------------------------------------------------------------------------
(* The form *)

\* f_addField2Panel; a leaf that is in the form stays as it is
\* (f_updateFieldValues2Panel), and a node's leaves get there together.
NewFields(u, n) ==
  IF ~u.showLeaf \/ ToSet(Leaves[n]) \subseteq ToSet(u.form.items) THEN <<>> ELSE Leaves[n]

\* Fields as they are made: what is shown is what it will be compared with.
Made(fn, u, fields) == [f \in Field |-> IF f \in fields THEN u.known[f] ELSE fn[f]]

\* f_addConfiSetButton, after the last leaf
SetButton(items) ==
  IF items = <<>> \/ Contains(items, Submit) THEN items ELSE Append(items, Submit)

\* f_interHandler. Each leaf becomes m_selNode.
Fill(u, n) ==
  LET fields == NewFields(u, n)
  IN  [u EXCEPT
         !.mine = Last(Leaves[n]),
         !.form.items = SetButton(@ \o fields),
         !.form.val = Made(@, u, ToSet(fields)),
         !.form.orig = Made(@, u, ToSet(fields)),
         !.form.base = Made(@, u, ToSet(fields))]

\* f_handleConfButton
Button(u, n) ==
  IF n # Root /\ u.conf[n] \in {"active", "active_plus", "set"} THEN "Delete" ELSE "Create"

\* Faulty: the fields of the node left stay in the panel.
HandleClickKeeps(u, n) ==
  LET b == Button(u, n)
      v == [u EXCEPT !.mine = n, !.showLeaf = b = "Delete",
                     !.form.title = n, !.form.button = b]
  IN  IF n = Root THEN v ELSE IF n \in u.loaded THEN Fill(v, n)
      ELSE [v EXCEPT !.load[n] = @ \union {"form"}]

\* f_HandleNodeConfigClick: the form of a node whose title is shown already stays as it is.
HandleClick(u, n) ==
  LET b == Button(u, n)
      v == [u EXCEPT !.mine = n, !.showLeaf = b = "Delete",
                     !.form = IF @.title = n THEN @
                              ELSE [NoForm EXCEPT !.title = n, !.button = b]]
  IN  IF n = Root THEN v ELSE IF n \in u.loaded THEN Fill(v, n)
      ELSE [v EXCEPT !.load[n] = @ \union {"form"}]

Select(u, n) == HandleClick([u EXCEPT !.sel = n], n)

----------------------------------------------------------------------------
(* Loading *)

Loading == ui.rootload \/ \E n \in Node : ui.load[n] # {}

\* A node's children are dropped and asked for; what is dropped is selected no more.
Reload(u, n) ==
  IF n = Root THEN [u EXCEPT !.loaded = {}, !.rootload = TRUE,
                             !.sel = IF @ \in Node THEN None ELSE @]
  ELSE [u EXCEPT !.loaded = @ \ {n}, !.load[n] = @ \union {"plain"},
                 !.sel = IF @ \in ToSet(Leaves[n]) THEN None ELSE @]

\* f_handlePropagateParentNodes; the root's own mark is not looked at again.
Propagate(u, n) == IF n \in Node THEN [u EXCEPT !.conf[n] = "set"] ELSE u

\* The handlers of the load event. A form was sent:
RunSent(u, n) ==
  [Propagate(HandleClick([u EXCEPT !.conf[n] = "set"], n), n)
     EXCEPT !.avail = TRUE, !.offer = TRUE]

\* After commit and discard the path of the node that was selected is expanded, and then
\* it is selected.
RunPath(u, n) ==
  [u EXCEPT !.form = NoForm, !.load[n] = @ \union {"select"}]

\* After a deletion the root's own expansion comes first, with the root selected.
RunDeleted(u, n) == Select(HandleClick(u, Root), n)

Run(u, h) ==
  IF h.of \notin Node THEN [u EXCEPT !.form = IF h.do = "path" THEN NoForm ELSE @]
  ELSE CASE h.do = "sent"    -> RunSent(u, h.of)
         [] h.do = "path"    -> RunPath(u, h.of)
         [] h.do = "deleted" -> RunDeleted(u, h.of)

RunAll(u) ==
  LET run[i \in 0..Len(u.handlers)] ==
        IF i = 0 THEN [u EXCEPT !.handlers = <<>>] ELSE Run(run[i - 1], u.handlers[i])
  IN  run[Len(u.handlers)]

\* The root's children arrive, and are rendered: f_onRenderer.
RootLoaded ==
  /\ ui.rootload
  /\ ui' = RunAll([ui EXCEPT !.rootload = FALSE, !.conf = Marks,
                      !.avail = Offered(Marks), !.offer = Offered(Marks)])
  /\ UNCHANGED <<box, asked, req, work, active, bounds>>

\* A node's leaves arrive; whatever waits for any load is run before what waits for it.
NodeLoaded(n) ==
  /\ ui.load[n] # {}
  /\ LET got == RunAll([ui EXCEPT !.load[n] = {}, !.loaded = @ \union {n},
                          !.known = [f \in Field |-> IF Contains(Leaves[n], f)
                                                     THEN work.val[f] ELSE @[f]]])
     IN  ui' = IF "select" \in ui.load[n] THEN Select(got, n)
               ELSE IF "form" \in ui.load[n] THEN Fill(got, n) ELSE got
  /\ UNCHANGED <<box, asked, req, work, active, bounds>>

----------------------------------------------------------------------------
(* The user *)

\* Steps after which the properties are not claimed: clicking before a reload is answered,
\* answering No to the question about a changed form (a leaf is selected then), and an
\* answer that is lost.
Odd(b) == IF b THEN odd < MaxOdd /\ odd' = odd + 1 ELSE UNCHANGED odd

\* f_onConfigTreeNodeClick, then the tree's own selection of the node clicked
NodeClick(n) ==
  /\ box = "none" /\ req = None
  /\ clicks < MaxClicks /\ clicks' = clicks + 1
  /\ Odd(Loading)
  /\ IF ui.dirty
     THEN ui' = [ui EXCEPT !.sel = n] /\ box' = "question" /\ asked' = n
     ELSE ui' = Select(ui, n) /\ UNCHANGED <<box, asked>>
  /\ UNCHANGED <<req, work, active, edits, commands, refused>>

Question(yes) ==
  /\ box = "question" /\ box' = "none" /\ asked' = None
  /\ ui' = IF yes THEN [HandleClick(ui, asked) EXCEPT !.dirty = FALSE]
           ELSE [ui EXCEPT !.sel = ui.mine]
  /\ Odd(~yes)
  /\ UNCHANGED <<req, work, active, clicks, edits, commands, refused>>

Dismiss ==
  /\ box = "alert" /\ box' = "none"
  /\ UNCHANGED <<ui, asked, req, work, active, bounds>>

\* A field of the form is free for the user.
Editing(f) ==
  /\ box = "none" /\ req = None /\ Contains(ui.form.items, f)
  /\ edits < MaxEdits /\ edits' = edits + 1
  /\ UNCHANGED <<box, asked, req, work, active, clicks, commands, refused, odd>>

EditText(f) ==
  /\ f \in Text /\ Editing(f)
  /\ \E v \in Values(f) \ {ui.form.val[f]} :
       ui' = [ui EXCEPT !.form.val[f] = v, !.form.edited = @ \union {f}, !.dirty = TRUE]

EditCheck(f) ==
  /\ f \in Check /\ Editing(f)
  /\ ui' = [ui EXCEPT !.form.val[f] = Choice[f] \ @, !.form.edited = @ \union {f},
                      !.dirty = TRUE]

\* Any press in a grid counts as a change of it, on a check mark or not; but the page is
\* not marked as modified by it.
PressGrid(f) ==
  /\ f \in List /\ Editing(f)
  /\ \E pressed \in SUBSET Choice[f] :
       /\ Cardinality(pressed) <= 1
       /\ ui' = [ui EXCEPT !.form.val[f] = (@ \ pressed) \union (pressed \ @),
                           !.form.edited = @ \union {f}, !.form.pressed = @ \union {f}]

----------------------------------------------------------------------------
(* Sending a form *)

IsChanged(form, f) == IF f \in List THEN f \in form.pressed ELSE form.val[f] # form.orig[f]

\* The place of the next item that is not skipped, or 0
NextPlace(form, i) ==
  SelectInSubSeq(form.items, i, Len(form.items),
                 LAMBDA it : it = Submit \/ IsChanged(form, it))

\* f_getEditGridCheckerValues: a grid's commands are the difference from when the form
\* was made; a text's and a check's say all of it.
GridAdds(form, f) == form.val[f] \ form.base[f]
GridDeletes(form, f) == form.base[f] \ form.val[f]

FieldRequest(u, f) ==
  [op |-> "field", of |-> f, path |-> u.sel,
   add |-> IF f \in List THEN GridAdds(u.form, f) ELSE u.form.val[f],
   del |-> IF f \in List THEN GridDeletes(u.form, f) ELSE Choice[f] \ u.form.val[f]]

Sent(u, j, f) ==
  [u EXCEPT !.next = j + 1, !.num = @ + 1, !.sent = @ \union {f},
            !.form.orig[f] = IF f \in Text THEN u.form.val[f] ELSE @,
            !.form.again = @ \union ({f} \intersect List),
            !.form.twice = @ \union ({f} \intersect u.form.again)]

\* f_handleFormIndicators of the fields sent, then f_handleFieldError
Indicated(form, sent, errs) ==
  [form EXCEPT
     !.orig = [f \in Field |-> IF f \in sent \intersect Check THEN form.val[f] ELSE @[f]],
     !.flag = (@ \ sent) \union {form.items[i] : i \in errs \intersect DOMAIN form.items},
     !.edited = {}]

\* f_handleConfFormCommandDone
Finished(u) ==
  Reload([u EXCEPT !.form = Indicated(@, u.sent, u.errs), !.avail = TRUE,
                   !.handlers = Append(@, [do |-> "sent", of |-> u.sel])], u.sel)

\* f_sendConfFormCommand, with the box as it is. A leaf cannot be reloaded, and no item
\* after the last be sent: the script fails there, and the box stays.
Send(u, b) ==
  LET j == NextPlace(u.form, u.next)
      f == u.form.items[j]
  IN  IF j = 0 \/ u.sel \notin Node \union Field THEN
        ui' = u /\ req' = None /\ box' = b
      ELSE IF f # Submit THEN
        /\ ui' = Sent(u, j, f) /\ req' = FieldRequest(u, f)
        /\ box' = IF u.num = 0 THEN "wait" ELSE b
      ELSE IF u.num = 0 THEN
        ui' = [u EXCEPT !.form.edited = {}] /\ req' = None /\ box' = b
      ELSE
        /\ ui' = IF u.sel \in Node THEN Finished(u) ELSE u
        /\ req' = None
        /\ box' = IF u.errs = {} \/ u.sel \notin Node THEN "none" ELSE "alert"

Command == commands < MaxCommands /\ commands' = commands + 1

\* The Set button, or the key Enter in a field, which leaves m_isDirty
Set(enter) ==
  /\ box = "none" /\ req = None /\ Command
  /\ ui.form.items # <<>>
  /\ enter \/ Contains(ui.form.items, Submit)
  /\ Odd(Loading)
  /\ Send([ui EXCEPT !.next = 1, !.num = 0, !.errs = {}, !.sent = {}, !.dirty = enter], box)
  /\ UNCHANGED <<asked, work, active, clicks, edits, refused>>

\* The server's part of a field's commands: all of them, or those before one it refuses.
Apply(add, del) ==
  LET f == req.of
  IN  work' = [nodes |-> work.nodes \union IF add = {} THEN {} ELSE {Owner(f)},
               val |-> [work.val EXCEPT ![f] = (@ \ del) \union add]]

Refuse == refused < MaxRefused /\ refused' = refused + 1

\* Faulty: the place of the field after the one refused is kept.
ErrorPlaceNext(u) == [u EXCEPT !.errs = @ \union {u.next}]

ErrorPlace(u) == [u EXCEPT !.errs = @ \union {u.next - 1}]

FieldOk ==
  /\ req # None /\ req.op = "field"
  /\ req.path = Owner(req.of) /\ req.add \union req.del # {}
  /\ Apply(req.add, req.del)
  /\ Send(ui, box)
  /\ UNCHANGED <<asked, active, bounds>>

\* Faulty: the fields after one that is refused are not sent.
FieldRefusedStops ==
  /\ req # None /\ req.op = "field" /\ Refuse
  /\ ui' = ErrorPlace(ui) /\ req' = None
  /\ UNCHANGED <<box, work, asked, active, clicks, edits, commands, odd>>

\* A path that is not the leaf's, or a request without a command, is always refused.
FieldRefused ==
  /\ req # None /\ req.op = "field"
  /\ IF req.path = Owner(req.of) /\ req.add \union req.del # {}
     THEN /\ Refuse
          /\ \/ UNCHANGED work
             \/ /\ req.of \in List
                /\ \E a \in SUBSET req.add, d \in SUBSET req.del :
                     <<a, d>> # <<req.add, req.del>> /\ Apply(a, d)
     ELSE UNCHANGED <<work, refused>>
  /\ Send(ErrorPlace(ui), box)
  /\ UNCHANGED <<asked, active, clicks, edits, commands, odd>>

----------------------------------------------------------------------------
(* Create, Delete, commit, discard *)

SendCommand(c, n) ==
  /\ box = "none" /\ req = None /\ Command
  /\ Odd(Loading)
  /\ req' = [op |-> c, of |-> n] /\ box' = "wait"
  /\ UNCHANGED <<ui, asked, work, active, clicks, edits, refused>>

\* f_createConfButton
NodeButton ==
  /\ ui.form.title \in Node
  /\ SendCommand(ui.form.button, ui.form.title)

\* The toolbar; discard asks first.
Toolbar(c) == (c = "view" \/ ui.offer) /\ SendCommand(c, None)

\* sendCommandCliCb: the root is reloaded, and then the node selected so far expanded.
Reloaded ==
  Reload([ui EXCEPT !.handlers = Append(@, [do |-> "path", of |-> ui.sel])], Root)

\* f_handleParentNodeExpansion of a node just made
Created(n) ==
  LET u == [Propagate(ui, n) EXCEPT !.avail = TRUE, !.offer = TRUE,
                                    !.form = NoForm]
      v == IF u.sel \in Node THEN Reload(u, u.sel) ELSE u
  IN  IF n \in v.loaded THEN Select(v, n)
      ELSE [v EXCEPT !.load[n] = @ \union {"select"}]

\* and of one deleted: the parent, the root, is selected and reloaded.
Deleted(n) ==
  [Reload(ui, Root) EXCEPT
     !.sel = Root, !.avail = TRUE, !.offer = TRUE,
     !.handlers = Append(@, [do |-> "deleted", of |-> ui.sel])]

CommandOk ==
  /\ req # None /\ req.op # "field"
  /\ CASE req.op = "Create" ->
            /\ work' = [work EXCEPT !.nodes = @ \union {req.of}]
            /\ ui' = Created(req.of) /\ UNCHANGED active
       [] req.op = "Delete" ->
            /\ work' = [nodes |-> work.nodes \ {req.of},
                        val |-> [f \in Field |-> IF Owner(f) = req.of THEN {}
                                                 ELSE work.val[f]]]
            /\ ui' = Deleted(req.of) /\ UNCHANGED active
       [] req.op = "commit"  -> active' = work /\ ui' = Reloaded /\ UNCHANGED work
       [] req.op = "discard" -> work' = active /\ ui' = Reloaded /\ UNCHANGED active
       [] req.op = "view"    -> UNCHANGED <<ui, work, active>>
  /\ req' = None /\ box' = "none"
  /\ UNCHANGED <<asked, bounds>>

\* Only a commit that is refused goes on to reload.
CommandRefused ==
  /\ req # None /\ req.op \in {"Create", "Delete", "commit"} /\ Refuse
  /\ ui' = IF req.op = "commit" THEN Reloaded ELSE ui
  /\ req' = None /\ box' = "alert"
  /\ UNCHANGED <<asked, work, active, clicks, edits, commands, odd>>

\* f_isResponseOK is false: a form goes on with its next field, and closes the alert once
\* it is through. The server may have done what was asked.
Lost ==
  /\ req # None /\ Odd(TRUE)
  /\ IF req.op = "field" THEN Apply(req.add, req.del) \/ UNCHANGED work ELSE UNCHANGED work
  /\ IF req.op = "field" THEN Send(ui, "alert") ELSE ui' = ui /\ req' = None /\ box' = "alert"
  /\ UNCHANGED <<asked, active, clicks, edits, commands, refused>>

----------------------------------------------------------------------------

Answered == FieldOk \/ FieldRefused \/ CommandOk \/ CommandRefused \/ Lost

User ==
  \/ \E n \in Node : NodeClick(n)
  \/ \E yes \in BOOLEAN : Question(yes)
  \/ \E f \in Field : EditText(f) \/ EditCheck(f) \/ PressGrid(f)
  \/ \E enter \in BOOLEAN : Set(enter)
  \/ \E c \in {"commit", "discard", "view"} : Toolbar(c)
  \/ NodeButton \/ Dismiss

Next == User \/ Answered \/ RootLoaded \/ \E n \in Node : NodeLoaded(n)

Spec == Init /\ [][Next]_vars

----------------------------------------------------------------------------
(* Properties, as long as no step was odd *)

\* A field is sent to the path of the node whose form it is, though the path is the one
\* selected when its turn comes, which every click and every reload's handlers change.
SentToItsNode ==
  odd = 0 /\ req # None => (req.op = "field" => req.path = Owner(req.of))

\* Once all is answered and reloaded, a field that was not edited since the last Set and
\* is not flagged shows what the session has: nothing changed was skipped, errors are
\* flagged at their own fields, and no form outlives a commit, discard or deletion. But
\* a grid set twice from one form is compared with what the form was made with.
FormIsSession ==
  odd = 0 /\ req = None /\ ~Loading =>
    \A f \in ToSet(ui.form.items) \ ({Submit} \union ui.form.flag \union ui.form.edited
                                                 \union ui.form.twice) :
      ui.form.val[f] = work.val[f]

\* A session with changes can commit or discard them: the toolbar's buttons go by the
\* marks of the nodes last loaded and by what was set since, whichever way the tree
\* reloads.
CommitOffered == odd = 0 /\ req = None /\ ~Loading /\ work # active => ui.offer

\* The wait box, which keeps the user from everything else, is up only while an answer is
\* to come: a field skipped, refused or the last never leaves the form half sent.
WaitHasRequest == odd = 0 /\ box = "wait" => req # None
============================================================================
