------------------------------ MODULE Commit ------------------------------
(* Committing a session's changes (lib/common/unionfs.c). What the session   *)
(* sees is the union of its changes-only directory, read-write, over the     *)
(* active configuration, read-only: the changes hold what was made or        *)
(* written, a white-out for what was deleted, and an opaque marker in a      *)
(* directory made anew. A commit reads the changes into a tree of nodes,     *)
(* each with an operation; copies the union aside, unmounts it and brings    *)
(* the active configuration up to date piecewise, one subtree at a time, for *)
(* the subtrees its caller (outside this code) picks; and then clears the    *)
(* changes. It may die between any two steps, or give up after some.         *)
(* /bin/sh is bash, as the braces in the commands expect.                    *)
EXTENDS Naturals, FiniteSets

CONSTANTS
  Node, Root,  \* the directories a configuration may hold, and the top one
  Above,       \* the directories a node lies in, the top one left out
  Leaf,        \* the nodes whose directory holds a value file
  Multi,       \* the leaves with several values
  Value,
  Start,       \* active configurations to start from
  MaxEdits,    \* bound on the session's edits
  MaxOthers    \* bound on what other sessions' commits change

Content(x) == IF x \in Multi THEN SUBSET Value ELSE {{}} \union {{v} : v \in Value}

Closed(D) == \A p \in D : Above[p] \subseteq D

\* A value {} is no value file; def: the leaves whose value is a default.
Tree == {t \in [dir : SUBSET Node, val : [Leaf -> SUBSET Value], def : SUBSET Leaf] :
            /\ Closed(t.dir)
            /\ \A x \in Leaf : t.val[x] \in Content(x) /\ (t.val[x] # {} => x \in t.dir)
            /\ \A x \in t.def : t.val[x] # {}}

ASSUME NodesOK ==
  /\ Root \notin Node /\ Above \in [Node -> SUBSET Node]
  /\ \A p \in Node : p \notin Above[p] /\ Closed(Above[p]) /\ IsFiniteSet(Above[p])
  /\ \A p, q \in Node, r \in Node : {p, q} \subseteq Above[r] /\ p # q
                                       => p \in Above[q] \/ q \in Above[p]
ASSUME LeavesOK == /\ Multi \subseteq Leaf /\ Leaf \subseteq Node
                   /\ \A p \in Node : Above[p] \intersect Leaf = {}
ASSUME StartOK == Start \subseteq Tree
ASSUME BoundsOK == MaxEdits \in Nat /\ MaxOthers \in Nat

VARIABLES
  active,   \* the active configuration
  changes,  \* the session's changes-only directory
  tmp,      \* the value files of the copy made of the union
  mounted,  \* the union is mounted
  pc,
  op,       \* the operation of each node read
  valued,   \* the leaves read with value nodes below them
  at, done, \* the subtree being copied, those copied
  todo,     \* nodes a traversal has still to visit
  bare,     \* a leaf whose default marker was removed and not copied yet
  seen,     \* what the session saw when the commit began (history)
  before,   \* the active configuration then (history)
  edits, others

state == <<active, changes, tmp, mounted>>
walk  == <<op, valued, at, done, todo, bare>>
past  == <<seen, before>>
count == <<edits, others>>
vars  == <<state, pc, walk, past, count>>

Below(p) == {q \in Node : p \in Above[q]}
At(p) == {p} \union Below(p)
Within(n) == IF n = Root THEN Node ELSE At(n)
Inside(q, p) == p \in Above[q] /\ Above[q] = Above[p] \union {p}  \* q is an entry of p
NoVal == [x \in Leaf |-> {}]
Without(v, P) == [x \in Leaf |-> IF x \in P THEN {} ELSE v[x]]
Empty == [dir |-> {}, val |-> NoVal, def |-> {}, wh |-> {}, opq |-> {}, whdef |-> {}]

----------------------------------------------------------------------------
(* The union file system, and editing through it: outside this code. *)

Covered(c, p) == (Above[p] \union {p}) \intersect c.wh # {} \/ Above[p] \intersect c.opq # {}
FileCovered(c, x) == Covered(c, x) \/ x \in c.opq

Union(c, a) ==
  [dir |-> c.dir \union {p \in a.dir : ~Covered(c, p)},
   val |-> [x \in Leaf |-> IF c.val[x] # {} THEN c.val[x]
                           ELSE IF FileCovered(c, x) THEN {} ELSE a.val[x]],
   def |-> c.def \union {x \in a.def : ~FileCovered(c, x) /\ x \notin c.whdef}]

View == Union(changes, active)

\* A new directory is opaque, whatever its white-out hid before.
Mkdir(c, a, p) ==
  LET path == Above[p] \union {p}
      new  == path \ Union(c, a).dir
  IN  [c EXCEPT !.dir = @ \union path, !.opq = @ \union new, !.wh = @ \ new]

Put(c, a, x, V, default) ==
  LET m == Mkdir(c, a, x) IN
  [m EXCEPT !.val[x] = V,
            !.def = IF default THEN @ \union {x} ELSE @ \ {x},
            !.whdef = IF ~default /\ x \in a.def /\ ~FileCovered(m, x) THEN @ \union {x} ELSE @ \ {x}]

Remove(c, a, p) ==
  [dir |-> (c.dir \ At(p)) \union Above[p],
   val |-> Without(c.val, At(p)),
   def |-> c.def \ At(p), whdef |-> c.whdef \ At(p), opq |-> c.opq \ At(p),
   wh  |-> (c.wh \ At(p)) \union {q \in {p} \intersect a.dir : ~Covered(c, q)}]

Init ==
  /\ active \in Start /\ changes = Empty /\ mounted = TRUE
  /\ tmp = [val |-> NoVal, def |-> {}]
  /\ pc = "idle" /\ op = <<>> /\ valued = {} /\ at = Root /\ done = {} /\ todo = {} /\ bare = {}
  /\ before = active /\ seen = active
  /\ edits = 0 /\ others = 0

Edit ==
  /\ pc = "idle" /\ mounted /\ edits < MaxEdits
  /\ edits' = edits + 1
  /\ \/ \E p \in Node \ (Leaf \union View.dir) : changes' = Mkdir(changes, active, p)
     \/ \E x \in Leaf : \E V \in Content(x) \ {{}}, d \in BOOLEAN :
          changes' = Put(changes, active, x, V, d)
     \/ \E p \in View.dir : changes' = Remove(changes, active, p)
  /\ UNCHANGED <<active, tmp, mounted, pc, walk, past, others>>

\* Another session commits: the lock keeps its commit apart from this session's.
Other ==
  /\ pc = "idle" /\ others < MaxOthers
  /\ others' = others + 1
  /\ \/ \E p \in active.dir : active' = [dir |-> active.dir \ At(p),
                                         val |-> Without(active.val, At(p)),
                                         def |-> active.def \ At(p)]
     \/ \E x \in Leaf : \E V \in Content(x) \ {{}}, d \in BOOLEAN :
          active' = [dir |-> active.dir \union Above[x] \union {x},
                     val |-> [active.val EXCEPT ![x] = V],
                     def |-> IF d THEN active.def \union {x} ELSE active.def \ {x}]
  /\ UNCHANGED <<changes, tmp, mounted, pc, walk, past, edits>>
----------------------------------------------------------------------------
(* common_get_local_session_data: what the changes do to each node *)

Up(p, o) == {q \in DOMAIN o : Inside(p, q)}

\* White-outs: the node, and all the active configuration has below it.
Deleted == UNION {{p} \union (Below(p) \intersect active.dir) : p \in changes.wh}

\* Faulty: opaque markers are not looked at.
HiddenNot == {}

\* Entries of the active configuration an opaque directory hides: themselves only.
Hidden == {p \in active.dir \ changes.dir : \E q \in changes.opq : Inside(p, q)}

Operations ==
  [p \in changes.dir \union Deleted \union Hidden |->
     IF p \notin changes.dir THEN "DEL" ELSE IF p \in active.dir THEN "NO_OP" ELSE "CREATE"]

Valued == {x \in Leaf : changes.val[x] # {} \/ (x \in Deleted /\ active.val[x] # {})}

\* get_term_data_values: the operation of each value node of a leaf read
ValueOperations(x) ==
  LET was == active.val[x]
      new == View.val[x]
  IN  CASE x \in Multi -> [v \in was \union new |-> IF v \notin new THEN "DEL"
                                                  ELSE IF v \notin was THEN "CREATE" ELSE "NO_OP"]
        [] x \notin Multi /\ new = {} -> [v \in was |-> "DEL"]
        [] OTHER -> [v \in new |-> IF was = {} THEN "CREATE"
                                   ELSE IF was = new THEN "NO_OP" ELSE "SET"]

Read ==
  /\ pc = "idle" /\ mounted /\ changes # Empty
  /\ op' = Operations /\ valued' = Valued
  /\ seen' = View /\ before' = active
  /\ done' = {} /\ at' = Root /\ todo' = {} /\ bare' = {}
  /\ pc' = "read"
  /\ UNCHANGED <<state, count>>

----------------------------------------------------------------------------
(* common_commit_copy_to_live_config, of a node the caller picks; nested ones *)
(* are not supported. *)

\* Faulty: the copy of an earlier commit is used again.
MergeStale(n) ==
  /\ pc = "read"
  /\ n \in DOMAIN op \/ (n = Root /\ done = {})
  /\ \A d \in done : Within(d) \intersect Within(n) = {}
  /\ at' = n
  /\ pc' = "merged"
  /\ UNCHANGED <<state, op, valued, done, todo, bare, past, count>>

Merge(n) ==
  /\ pc = "read"
  /\ n \in DOMAIN op \/ (n = Root /\ done = {})
  /\ \A d \in done : Within(d) \intersect Within(n) = {}
  /\ at' = n
  /\ tmp' = [val |-> [x \in Leaf |-> IF x \in Within(n) THEN View.val[x] ELSE tmp.val[x]],
             def |-> (View.def \intersect Within(n)) \union (tmp.def \ Within(n))]
  /\ pc' = "merged"
  /\ UNCHANGED <<active, changes, mounted, op, valued, done, todo, bare, past, count>>

Umount ==
  /\ pc = "merged"
  /\ mounted' = FALSE
  /\ todo' = Within(at) \intersect DOMAIN op
  /\ pc' = "copy"
  /\ UNCHANGED <<active, changes, tmp, op, valued, at, done, bare, past, count>>

\* Faulty: no look at whether the node is deleted.
CopyDirAny(p) ==
  /\ pc = "copy" /\ bare = {}
  /\ p \in todo /\ Above[p] \intersect todo = {}
  /\ todo' = todo \ {p}
  /\ bare' = {p} \intersect valued
  /\ active' = [active EXCEPT !.dir = @ \union Above[p] \union {p}, !.def = @ \ bare']
  /\ UNCHANGED <<changes, tmp, mounted, pc, op, valued, at, done, past, count>>

\* copy_func, top down: the directory, and for a leaf away with its default marker
CopyDir(p) ==
  /\ pc = "copy" /\ bare = {}
  /\ p \in todo /\ Above[p] \intersect todo = {}
  /\ todo' = todo \ {p}
  /\ bare' = {p} \intersect valued
  /\ active' = [active EXCEPT !.dir = IF op[p] = "DEL" THEN @ ELSE @ \union Above[p] \union {p},
                             !.def = @ \ bare']
  /\ UNCHANGED <<changes, tmp, mounted, pc, op, valued, at, done, past, count>>

\* then its files are copied, as far as they are there
CopyValue ==
  /\ pc = "copy" /\ bare # {}
  /\ active' = [active EXCEPT
        !.val = [x \in Leaf |-> IF x \in bare \intersect active.dir /\ tmp.val[x] # {}
                                THEN tmp.val[x] ELSE active.val[x]],
        !.def = @ \union (bare \intersect active.dir \intersect tmp.def)]
  /\ bare' = {}
  /\ UNCHANGED <<changes, tmp, mounted, pc, op, valued, at, done, todo, past, count>>

\* Faulty: nodes without an operation are not skipped.
CopiedAll ==
  /\ pc = "copy" /\ bare = {} /\ todo = {}
  /\ todo' = Within(at) \intersect DOMAIN op
  /\ pc' = "delete"
  /\ UNCHANGED <<state, op, valued, at, done, bare, past, count>>

Copied ==
  /\ pc = "copy" /\ bare = {} /\ todo = {}
  /\ todo' = {p \in Within(at) \intersect DOMAIN op : op[p] # "NO_OP"}
  /\ pc' = "delete"
  /\ UNCHANGED <<state, op, valued, at, done, bare, past, count>>

\* "rm -f p/{*,.*}; rmdir p" in the changes, and in the active configuration
Emptied(c, p) ==
  [dir |-> IF Below(p) \intersect c.dir = {} THEN c.dir \ {p} ELSE c.dir,
   val |-> Without(c.val, {p}), def |-> c.def \ {p}, whdef |-> c.whdef \ {p},
   opq |-> c.opq \ {p}, wh |-> {q \in c.wh : ~Inside(q, p)}]

Stripped(a, p) ==
  [dir |-> IF Below(p) \intersect a.dir = {} THEN a.dir \ {p} ELSE a.dir,
   val |-> Without(a.val, {p}), def |-> a.def \ {p}]

\* delete_func, bottom up. The white-out is named p/../.wh.name: it stays, as the path
\* does not resolve where the changes hold no directory p.
DeleteNode(p) ==
  /\ pc = "delete"
  /\ p \in todo /\ Below(p) \intersect todo = {}
  /\ todo' = todo \ {p}
  /\ IF op[p] = "DEL"
     THEN /\ active' = Stripped(active, p)
          /\ changes' = [changes EXCEPT !.wh = IF p \in changes.dir THEN @ \ {p} ELSE @]
     ELSE /\ changes' = Emptied(changes, p)
          /\ UNCHANGED active
  /\ UNCHANGED <<tmp, mounted, pc, op, valued, at, done, bare, past, count>>

Mount ==
  /\ pc = "delete" /\ todo = {}
  /\ mounted' = TRUE
  /\ done' = done \union {at}
  /\ pc' = "read"
  /\ UNCHANGED <<active, changes, tmp, op, valued, at, todo, bare, past, count>>

----------------------------------------------------------------------------
(* common_commit_clean_temp_config, once all was copied *)

\* The caller has copied everything, but for what lies above a node it did copy:
\* directories made are made on the way, those deleted are left to delete_wh_func.
Finished == \A p \in DOMAIN op :
  \/ \E n \in done : p \in Within(n)
  \/ op[p] # "CREATE" /\ Below(p) \intersect DOMAIN op # {}
  \/ \E n \in done \intersect Below(p) : op[n] # "DEL"

\* Faulty: whatever is deleted was removed when it was copied.
CleanUmountOnly ==
  /\ pc = "read" /\ Finished
  /\ mounted' = FALSE
  /\ todo' = {}
  /\ pc' = "clean"
  /\ UNCHANGED <<active, changes, tmp, op, valued, at, done, bare, past, count>>

CleanUmount ==
  /\ pc = "read" /\ Finished
  /\ mounted' = FALSE
  /\ todo' = {p \in DOMAIN op : op[p] = "DEL" /\ \A q \in Up(p, op) : op[q] # "DEL"}
  /\ pc' = "clean"
  /\ UNCHANGED <<active, changes, tmp, op, valued, at, done, bare, past, count>>

\* delete_wh_func: "rm -fr" of what is deleted from a directory that stays
CleanNode(p) ==
  /\ pc = "clean" /\ p \in todo
  /\ todo' = todo \ {p}
  /\ active' = [dir |-> active.dir \ At(p), val |-> Without(active.val, At(p)),
                def |-> active.def \ At(p)]
  /\ UNCHANGED <<changes, tmp, mounted, pc, op, valued, at, done, bare, past, count>>

Wipe ==
  /\ pc = "clean" /\ todo = {}
  /\ changes' = Empty
  /\ pc' = "wiped"
  /\ UNCHANGED <<active, tmp, mounted, walk, past, count>>

Forget == op' = <<>> /\ valued' = {} /\ at' = Root /\ done' = {} /\ todo' = {} /\ bare' = {}

Remount ==
  /\ pc = "wiped"
  /\ mounted' = TRUE
  /\ pc' = "idle" /\ Forget
  /\ UNCHANGED <<active, changes, tmp, past, count>>

----------------------------------------------------------------------------
(* The commit's process dies, or its caller gives up after a failure. *)

Stop ==
  /\ pc # "idle"
  /\ pc' = "idle" /\ Forget
  /\ UNCHANGED <<state, past, count>>

\* WebGUI::discard_session
Discard ==
  /\ pc = "idle" /\ (~mounted \/ changes # Empty)
  /\ changes' = Empty /\ mounted' = TRUE
  /\ UNCHANGED <<active, tmp, pc, walk, past, count>>

Next == \/ Edit \/ Other \/ Read \/ Umount \/ CopyValue \/ Copied \/ Mount
        \/ CleanUmount \/ Wipe \/ Remount \/ Stop \/ Discard
        \/ \E n \in Node \union {Root} : Merge(n)
        \/ \E p \in Node : CopyDir(p) \/ DeleteNode(p) \/ CleanNode(p)

Spec == Init /\ [][Next]_vars

----------------------------------------------------------------------------
(* Properties *)

Op == {"NO_OP", "CREATE", "DEL"}

TypeOK ==
  /\ active \in Tree
  /\ [dir |-> changes.dir, val |-> changes.val, def |-> changes.def] \in Tree
  /\ changes.wh \subseteq Node \ changes.dir /\ changes.opq \subseteq changes.dir
  /\ changes.whdef \subseteq Leaf
  /\ tmp.def \subseteq Leaf /\ mounted \in BOOLEAN
  /\ pc \in {"idle", "read", "merged", "copy", "delete", "clean", "wiped"}
  /\ DOMAIN op \subseteq Node /\ \A p \in DOMAIN op : op[p] \in Op
  /\ valued \subseteq DOMAIN op
  /\ at \in Node \union {Root} /\ done \subseteq Node \union {Root}
  /\ todo \subseteq DOMAIN op /\ bare \subseteq valued
  /\ seen \in Tree /\ before \in Tree
  /\ edits \in 0..MaxEdits /\ others \in 0..MaxOthers

\* The caller works from the nodes read: they are what tells the
\* session's view from the active configuration, directories and values alike. Of what
\* is deleted at least the top is among them.
ReadRight ==
  pc = "read" /\ done = {} =>
    /\ \A p \in DOMAIN op : op[p] = CASE p \notin seen.dir -> "DEL"
                                     [] p \in seen.dir \ before.dir -> "CREATE"
                                     [] OTHER -> "NO_OP"
    /\ seen.dir \ before.dir \subseteq DOMAIN op
    /\ \A p \in before.dir \ seen.dir : \E q \in DOMAIN op : op[q] = "DEL" /\ p \in At(q)
    /\ \A x \in valued : LET o == ValueOperations(x) IN
         /\ {v \in DOMAIN o : o[v] # "DEL"} = seen.val[x]
         /\ {v \in DOMAIN o : o[v] \in {"DEL", "NO_OP"}} \subseteq before.val[x]
    /\ \A x \in Leaf : \/ seen.val[x] = before.val[x] \/ x \in valued
                       \/ \E q \in DOMAIN op : op[q] = "DEL" /\ x \in At(q)

\* A commit that gets to its end leaves the active configuration as the session saw it,
\* whichever subtrees it copied in whichever order, and after whatever commits died or
\* gave up before it (piecewise_copy, common_commit_clean_temp_config).
CommitExact == pc = "wiped" => active = seen

\* Wherever a commit is, or dies: what the session saw it sees still, or it is in the
\* active configuration already and hidden by an opaque directory the commit has left
\* in the changes (delete_func skips nodes without an operation).
NothingLost ==
  pc # "idle" =>
    /\ \A p \in seen.dir \ View.dir : p \in active.dir /\ Above[p] \intersect changes.opq # {}
    /\ \A x \in Leaf : \/ View.val[x] = seen.val[x]
                       \/ /\ active.val[x] = seen.val[x]
                          /\ (Above[x] \union {x}) \intersect changes.opq # {}

\* Wherever a commit is, or dies: what the session had deleted or overwritten is not
\* seen again (the white-outs outlast what they hide).
NothingBack ==
  pc # "idle" =>
    /\ View.dir \subseteq seen.dir
    /\ \A x \in Leaf : View.val[x] \in {{}, seen.val[x]}

\* Whoever reads the active configuration during a commit finds in it what the session
\* did not change, and nothing that was in neither.
OnlyChanges ==
  pc # "idle" =>
    /\ before.dir \intersect seen.dir \subseteq active.dir
    /\ active.dir \subseteq before.dir \union seen.dir
    /\ \A x \in Leaf : active.val[x] \in {before.val[x], seen.val[x]}
============================================================================
