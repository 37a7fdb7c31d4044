---------------------------- MODULE ConfigView ----------------------------
(* What the browser is shown of a level of the configuration                *)
(* (Configuration::get_full_level, get_conf_dir, parse_value), while the    *)
(* same session, or another, may be editing and committing: each directory  *)
(* and each file is read by itself, and nothing keeps them still meanwhile. *)
EXTENDS Commit

VARIABLES
  rpc,      \* where the request is
  level,    \* the node whose entries it lists
  shown,    \* the state each entry is shown with (dir_coll)
  rest,     \* entries still to be looked up in the changes
  value,    \* the state each value of a leaf is shown with (state_coll)
  left,     \* leaves of the level whose values are still to be read
  steady,   \* nothing has changed since, and the union was there (history)
  always,   \* directories in the active configuration all the time (history)
  ever      \* directories in it, or seen by the session, at some time (history)

answer == <<rpc, level, shown, rest, value, left>>
history == <<steady, always, ever>>

\* The union's directory: empty while it is not mounted
Merged == IF mounted THEN View ELSE [dir |-> {}, val |-> NoVal, def |-> {}]

Entry(n) == {q \in Node : IF n = Root THEN Above[q] = {} ELSE Inside(q, n)}

ViewInit ==
  /\ Init
  /\ rpc = "idle" /\ level = Root /\ shown = <<>> /\ rest = {}
  /\ value = <<>> /\ left = {}
  /\ steady = FALSE /\ always = {} /\ ever = {}

Nothing == shown' = <<>> /\ rest' = {} /\ value' = <<>> /\ left' = {}

Ask(n) ==
  /\ rpc = "idle"
  /\ level' = n
  /\ Nothing
  /\ rpc' = "active"
  /\ steady' = mounted /\ always' = active.dir /\ ever' = active.dir \union Merged.dir
  /\ UNCHANGED vars

\* Faulty: only what the session still sees is listed.
ListActiveMerged ==
  /\ rpc = "active"
  /\ shown' = [p \in Entry(level) \intersect active.dir \intersect Merged.dir |-> "DELETE"]
  /\ rpc' = "merged"
  /\ UNCHANGED <<vars, level, rest, value, left, history>>

\* get_conf_dir: the active configuration first, everything in it as if deleted
ListActive ==
  /\ rpc = "active"
  /\ shown' = [p \in Entry(level) \intersect active.dir |-> "DELETE"]
  /\ rpc' = "merged"
  /\ UNCHANGED <<vars, level, rest, value, left, history>>

\* Faulty: what is new is not added.
ListMergedKnown ==
  /\ rpc = "merged"
  /\ rest' = Entry(level) \intersect Merged.dir \intersect DOMAIN shown
  /\ rpc' = "stat"
  /\ UNCHANGED <<vars, level, shown, value, left, history>>

\* then the union; what is in both is looked up in the changes
ListMerged ==
  /\ rpc = "merged"
  /\ LET found == Entry(level) \intersect Merged.dir IN
     /\ shown' = [p \in found \union DOMAIN shown |-> IF p \in DOMAIN shown THEN shown[p] ELSE "SET"]
     /\ rest' = found \intersect DOMAIN shown
  /\ rpc' = "stat"
  /\ UNCHANGED <<vars, level, value, left, history>>

\* Faulty: any entry of both counts as active.
StatActive(p) ==
  /\ rpc = "stat" /\ p \in rest
  /\ shown' = [shown EXCEPT ![p] = "ACTIVE"]
  /\ rest' = rest \ {p}
  /\ UNCHANGED <<vars, rpc, level, value, left, history>>

Stat(p) ==
  /\ rpc = "stat" /\ p \in rest
  /\ shown' = [shown EXCEPT ![p] = IF p \in changes.dir THEN "ACTIVE_PLUS" ELSE "ACTIVE"]
  /\ rest' = rest \ {p}
  /\ UNCHANGED <<vars, rpc, level, value, left, history>>

\* get_full_level: every leaf the template has at this level, configured or not
Statted ==
  /\ rpc = "stat" /\ rest = {}
  /\ left' = Entry(level) \intersect Leaf
  /\ rpc' = "values"
  /\ UNCHANGED <<vars, level, shown, rest, value, history>>

\* parse_value: the active file, each of its values as if deleted
ReadActive(x) ==
  /\ rpc = "values" /\ x \in left \ DOMAIN value
  /\ DOMAIN value \intersect left = {}
  /\ value' = [y \in DOMAIN value \union {x} |->
                 IF y = x THEN [v \in active.val[x] |-> "DELETE"] ELSE value[y]]
  /\ UNCHANGED <<vars, rpc, level, shown, rest, left, history>>

\* Faulty: a value kept in a leaf written is shown as a directory would be.
ReadMergedPlus(x) ==
  /\ rpc = "values" /\ x \in left \intersect DOMAIN value
  /\ value' = [value EXCEPT ![x] =
       [v \in DOMAIN @ \union Merged.val[x] |->
          IF v \notin Merged.val[x] THEN "DELETE"
          ELSE IF v \notin DOMAIN @ THEN "SET"
          ELSE IF changes.val[x] # {} THEN "ACTIVE_PLUS" ELSE "ACTIVE"]]
  /\ left' = left \ {x}
  /\ UNCHANGED <<vars, rpc, level, shown, rest, history>>

\* then the union's
ReadMerged(x) ==
  /\ rpc = "values" /\ x \in left \intersect DOMAIN value
  /\ value' = [value EXCEPT ![x] =
       [v \in DOMAIN @ \union Merged.val[x] |->
          IF v \notin Merged.val[x] THEN "DELETE" ELSE IF v \in DOMAIN @ THEN "ACTIVE" ELSE "SET"]]
  /\ left' = left \ {x}
  /\ UNCHANGED <<vars, rpc, level, shown, rest, history>>

Answer ==
  /\ rpc = "values" /\ left = {}
  /\ rpc' = "answered"
  /\ UNCHANGED <<vars, level, shown, rest, value, left, history>>

Forgotten ==
  /\ rpc = "answered"
  /\ rpc' = "idle" /\ level' = Root
  /\ Nothing
  /\ steady' = FALSE /\ always' = {} /\ ever' = {}
  /\ UNCHANGED vars

\* The session and the commits go on.
Meanwhile ==
  /\ rpc # "answered"
  /\ Next
  /\ UNCHANGED answer
  /\ IF rpc = "idle" THEN UNCHANGED history
     ELSE /\ steady' = (steady /\ UNCHANGED <<active, changes, mounted>>)
          /\ always' = always \intersect active'.dir
          /\ ever' = ever \union active'.dir \union (IF mounted' THEN View'.dir ELSE {})

ViewNext == \/ \E n \in (Node \ Leaf) \union {Root} : Ask(n)
            \/ ListActive \/ ListMerged \/ (\E p \in Node : Stat(p)) \/ Statted
            \/ (\E x \in Leaf : ReadActive(x) \/ ReadMerged(x))
            \/ Answer \/ Forgotten \/ Meanwhile

ViewSpec == ViewInit /\ [][ViewNext]_<<vars, answer, history>>

----------------------------------------------------------------------------
(* Properties *)

State == {"ACTIVE", "ACTIVE_PLUS", "SET", "DELETE"}

\* Types, of the commit's state too; and only what is in both is still to be looked up.
ViewTypeOK ==
  /\ TypeOK
  /\ rpc \in {"idle", "active", "merged", "stat", "values", "answered"}
  /\ level \in (Node \ Leaf) \union {Root}
  /\ DOMAIN shown \subseteq Entry(level) /\ \A p \in DOMAIN shown : shown[p] \in State
  /\ rest \subseteq DOMAIN shown /\ \A p \in rest : shown[p] = "DELETE"
  /\ left \subseteq Leaf /\ DOMAIN value \subseteq Entry(level) \intersect Leaf
  /\ \A x \in DOMAIN value : /\ DOMAIN value[x] \subseteq Value
                             /\ \A v \in DOMAIN value[x] : value[x][v] \in State \ {"ACTIVE_PLUS"}

Meaning == [DEL |-> "DELETE", CREATE |-> "SET", NO_OP |-> "ACTIVE_PLUS"]

\* If nothing changed while the level was read, what it shows is what a commit would do:
\* the entries deleted, set and kept are those the commit reads, and where it says just
\* "active" the commit does nothing, there or below.
ShowsCommit ==
  rpc = "answered" /\ steady =>
    /\ DOMAIN shown = Entry(level) \intersect (active.dir \union View.dir)
    /\ \A p \in DOMAIN shown :
         IF p \in DOMAIN Operations THEN shown[p] = Meaning[Operations[p]]
         ELSE \/ shown[p] = "ACTIVE" /\ At(p) \intersect DOMAIN Operations = {}
              \/ shown[p] = "DELETE" /\ \E q \in DOMAIN Operations : Operations[q] = "DEL" /\ p \in At(q)
    /\ \A x \in DOMAIN value :
         /\ DOMAIN value[x] = active.val[x] \union View.val[x]
         /\ x \in Valued =>
              {v \in DOMAIN value[x] : value[x][v] # "DELETE"} =
                {v \in DOMAIN ValueOperations(x) : ValueOperations(x)[v] # "DEL"}

\* Whatever goes on meanwhile, commits included: an entry the active configuration had all
\* the time is listed, and not as a new one; and none is made up.
NoneMissing ==
  rpc = "answered" =>
    /\ Entry(level) \intersect always \subseteq DOMAIN shown
    /\ \A p \in DOMAIN shown \intersect always : shown[p] # "SET"
    /\ DOMAIN shown \subseteq ever
============================================================================
