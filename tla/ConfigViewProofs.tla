------------------------- MODULE ConfigViewProofs -------------------------
(* Theorems about ConfigView. What keeps a level from missing an entry is    *)
(* that the active configuration is listed before the union: whatever a      *)
(* commit does meanwhile, an entry that stays is in the first list, and      *)
(* nothing about the commit's own steps is needed. That a level shows what a *)
(* commit would do rests on what CommitProofs says of the changes.           *)
EXTENDS ConfigView, CommitProofs

viewVars == <<vars, answer, history>>

\* What the history says of the configurations, while a request runs
Witnessed == rpc # "idle" => always \subseteq active.dir /\ active.dir \union Merged.dir \subseteq ever

\* What has been listed, once the active configuration has been
Listed ==
  rpc \notin {"idle", "active"} =>
    /\ Entry(level) \intersect always \subseteq DOMAIN shown
    /\ \A p \in DOMAIN shown \intersect always : shown[p] # "SET"
    /\ DOMAIN shown \subseteq ever

ViewInv == Witnessed /\ Listed

\* Only Meanwhile changes what is shown: the other steps find both configurations as
\* they were.
LEMMA Still ==
  ASSUME UNCHANGED vars
  PROVE  active' = active /\ Merged' = Merged
  BY DEF vars, state, Merged, View, Union, Covered, FileCovered, NoVal

LEMMA ViewInvStep ==
  ASSUME ViewInv, [ViewNext]_viewVars
  PROVE  ViewInv'
<1> USE DEF ViewInv
<1>1. ASSUME NEW n, Ask(n) PROVE ViewInv'
  <2>1. active' = active /\ Merged' = Merged
    BY <1>1, Still DEF Ask
  <2> QED
    BY <1>1, <2>1 DEF Ask, Witnessed, Listed
<1>2. CASE ListActive
  <2>1. active' = active /\ Merged' = Merged
    BY <1>2, Still DEF ListActive
  <2>2. Witnessed'
    BY <1>2, <2>1 DEF ListActive, Witnessed, history
  <2>3. Listed'
    BY <1>2 DEF ListActive, Witnessed, Listed, Entry, history
  <2> QED
    BY <2>2, <2>3
<1>3. CASE ListMerged
  <2>1. active' = active /\ Merged' = Merged
    BY <1>3, Still DEF ListMerged
  <2>2. Witnessed'
    BY <1>3, <2>1 DEF ListMerged, Witnessed, history
  <2>3. Listed'
    <3> DEFINE found == Entry(level) \intersect Merged.dir
    <3>1. DOMAIN shown' = found \union DOMAIN shown
      BY <1>3 DEF ListMerged
    <3>2. found \subseteq ever /\ DOMAIN shown \subseteq ever
      BY <1>3 DEF ListMerged, Witnessed, Listed
    <3>3. ASSUME NEW p \in DOMAIN shown', p \in always
          PROVE  shown'[p] # "SET"
      <4>1. p \in DOMAIN shown
        BY <1>3, <3>1, <3>3 DEF ListMerged, Listed
      <4>2. shown'[p] = shown[p]
        BY <1>3, <4>1 DEF ListMerged
      <4> QED
        BY <1>3, <3>3, <4>1, <4>2 DEF ListMerged, Listed
    <3>4. Entry(level') = Entry(level) /\ always' = always /\ ever' = ever
      BY <1>3 DEF ListMerged, history
    <3>5. Entry(level) \intersect always \subseteq DOMAIN shown
      BY <1>3 DEF ListMerged, Listed
    <3> QED
      BY <3>1, <3>2, <3>3, <3>4, <3>5 DEF Listed, Entry
  <2> QED
    BY <2>2, <2>3
<1>4. ASSUME NEW p \in Node, Stat(p) PROVE ViewInv'
  <2>1. active' = active /\ Merged' = Merged
    BY <1>4, Still DEF Stat
  <2>2. Witnessed'
    BY <1>4, <2>1 DEF Stat, Witnessed, history
  <2>3. DOMAIN shown' = DOMAIN shown
    BY <1>4 DEF Stat
  <2>4. \A q \in DOMAIN shown : shown[q] # "SET" => shown'[q] # "SET"
    BY <1>4 DEF Stat
  <2>5. Listed'
    BY <1>4, <2>3, <2>4 DEF Stat, Listed, Entry, history
  <2> QED
    BY <2>2, <2>5
<1>5. ASSUME /\ UNCHANGED <<vars, level, shown, history>>
             /\ rpc \notin {"idle", "active"} /\ rpc' \notin {"idle", "active"}
      PROVE  ViewInv'
  <2>1. active' = active /\ Merged' = Merged
    BY <1>5, Still
  <2> QED
    BY <1>5, <2>1 DEF Witnessed, Listed, Entry, history
<1>6. CASE Statted
  BY <1>5, <1>6 DEF Statted
<1>7. ASSUME NEW x \in Leaf, ReadActive(x) \/ ReadMerged(x) PROVE ViewInv'
  BY <1>5, <1>7 DEF ReadActive, ReadMerged
<1>8. CASE Answer
  BY <1>5, <1>8 DEF Answer
<1>9. CASE Forgotten
  BY <1>9 DEF Forgotten, Witnessed, Listed
<1>10. CASE Meanwhile
  <2>1. CASE rpc = "idle"
    BY <1>10, <2>1 DEF Meanwhile, answer, Witnessed, Listed
  <2>2. CASE rpc # "idle"
    <3>1. rpc' = rpc /\ level' = level /\ shown' = shown
      BY <1>10 DEF Meanwhile, answer
    <3>2. /\ always' = always \intersect active'.dir
          /\ ever' = ever \union active'.dir \union (IF mounted' THEN View'.dir ELSE {})
      BY <1>10, <2>2 DEF Meanwhile
    <3>3. Merged'.dir = IF mounted' THEN View'.dir ELSE {}
      BY DEF Merged
    <3>4. Witnessed'
      BY <3>2, <3>3 DEF Witnessed
    <3>5. Listed'
      BY <3>1, <3>2 DEF Listed, Entry
    <3> QED
      BY <3>4, <3>5
  <2> QED
    BY <2>1, <2>2
<1>11. CASE UNCHANGED viewVars
  <2>1. active' = active /\ Merged' = Merged
    BY <1>11, Still DEF viewVars
  <2> QED
    BY <1>11, <2>1 DEF viewVars, answer, history, Witnessed, Listed, Entry
<1> QED
  BY <1>1, <1>2, <1>3, <1>4, <1>6, <1>7, <1>8, <1>9, <1>10, <1>11 DEF ViewNext

\* Whatever commits, edits and discards do while a level is read, for any nodes, values
\* and configurations: no entry that was there all the time is left out or shown as new,
\* and none is made up (Configuration::get_full_level).
THEOREM NoneMissingTheorem == ViewSpec => []NoneMissing
<1>1. ViewInit => ViewInv
  BY DEF ViewInit, ViewInv, Witnessed, Listed
<1>2. ViewInv => NoneMissing
  BY DEF ViewInv, Listed, NoneMissing
<1> QED
  BY <1>1, <1>2, ViewInvStep, PTL DEF ViewSpec, viewVars

----------------------------------------------------------------------------
(* A level shows what a commit would do *)

\* Every step leaves the commit's state alone or is a step of Commit.
LEMMA CommitStep == [ViewNext]_viewVars => [Next]_vars
  BY DEF ViewNext, viewVars, Ask, ListActive, ListMerged, Stat, Statted, ReadActive, ReadMerged,
         Answer, Forgotten, Meanwhile

LEMMA ViewDone == ViewSpec => [](TypeInv /\ DoneInv)
<1>1. Init => TypeInv /\ ChangeInv /\ DoneInv
  BY TypeInit, EmptyLayered DEF Init, ChangeInv, DoneInv
<1>2. ViewInit => Init
  BY DEF ViewInit
<1> QED
  BY <1>1, <1>2, CommitStep, TypeStep, ChangeStep, DoneStep, PTL DEF ViewSpec, viewVars

ValueStates(w) == DOMAIN w \subseteq Value /\ \A v \in DOMAIN w : w[v] \in State \ {"ACTIVE_PLUS"}

Places ==
  /\ rpc \in {"idle", "active", "merged", "stat", "values", "answered"}
  /\ level \in (Node \ Leaf) \union {Root}
  /\ DOMAIN shown \subseteq Entry(level) /\ \A p \in DOMAIN shown : shown[p] \in State
  /\ rest \subseteq DOMAIN shown /\ \A p \in rest : shown[p] = "DELETE"
  /\ rpc \in {"idle", "active", "merged"} => rest = {}
  /\ rpc = "merged" => \A p \in DOMAIN shown : shown[p] = "DELETE"

Values ==
  /\ left \subseteq Entry(level) \intersect Leaf /\ DOMAIN value \subseteq Entry(level) \intersect Leaf
  /\ \A x \in DOMAIN value : ValueStates(value[x])

LEMMA NothingHeld ==
  ASSUME Nothing
  PROVE  DOMAIN shown' = {} /\ rest' = {} /\ DOMAIN value' = {} /\ left' = {}
  BY DEF Nothing

LEMMA Entries == \A n : Entry(n) \subseteq Node
  BY DEF Entry

LEMMA MergedOK == TypeInv => Merged.dir \subseteq Node /\ \A x \in Leaf : Merged.val[x] \subseteq Value
  BY ViewSound DEF TypeInv, Merged, NoVal, Plain

LEMMA PlacesStep ==
  ASSUME Places, [ViewNext]_viewVars
  PROVE  Places'
<1>1. ASSUME NEW n \in (Node \ Leaf) \union {Root}, Ask(n) PROVE Places'
  <2>1. rpc' = "active" /\ level' = n /\ DOMAIN shown' = {} /\ rest' = {}
    BY <1>1, NothingHeld DEF Ask
  <2> QED
    BY <2>1 DEF Places
<1>2. CASE ListActive
  <2>1. /\ rpc = "active" /\ rpc' = "merged" /\ level' = level /\ rest' = rest
        /\ DOMAIN shown' = Entry(level) \intersect active.dir
        /\ \A p \in DOMAIN shown' : shown'[p] = "DELETE"
    BY <1>2 DEF ListActive
  <2> QED
    BY <2>1 DEF Places, State, Entry
<1>3. CASE ListMerged
  <2> DEFINE found == Entry(level) \intersect Merged.dir
  <2>1. /\ rpc = "merged" /\ rpc' = "stat" /\ level' = level
        /\ DOMAIN shown' = found \union DOMAIN shown
        /\ \A p \in DOMAIN shown' : shown'[p] = IF p \in DOMAIN shown THEN shown[p] ELSE "SET"
        /\ rest' = found \intersect DOMAIN shown
    BY <1>3 DEF ListMerged
  <2>2. \A p \in DOMAIN shown : shown[p] = "DELETE"
    BY <2>1 DEF Places
  <2> QED
    BY <2>1, <2>2 DEF Places, State, Entry
<1>4. ASSUME NEW p \in Node, Stat(p) PROVE Places'
  <2>1. /\ rpc = "stat" /\ rpc' = "stat" /\ level' = level /\ p \in rest /\ rest' = rest \ {p}
        /\ DOMAIN shown' = DOMAIN shown
        /\ \A q \in DOMAIN shown : q # p => shown'[q] = shown[q]
    BY <1>4 DEF Stat
  <2>2. shown'[p] \in State
    BY <1>4, <2>1 DEF Stat, State, Places
  <2> QED
    BY <2>1, <2>2 DEF Places, Entry
<1>5. CASE Statted \/ Answer
  BY <1>5 DEF Statted, Answer, Places, Entry
<1>6. ASSUME NEW x \in Leaf, ReadActive(x) \/ ReadMerged(x) PROVE Places'
  BY <1>6 DEF ReadActive, ReadMerged, Places, Entry
<1>7. CASE Forgotten
  <2>1. rpc' = "idle" /\ level' = Root /\ DOMAIN shown' = {} /\ rest' = {}
    BY <1>7, NothingHeld DEF Forgotten
  <2> QED
    BY <2>1 DEF Places
<1>8. CASE Meanwhile \/ UNCHANGED viewVars
  <2>1. UNCHANGED answer
    BY <1>8 DEF Meanwhile, viewVars
  <2> QED
    BY <2>1 DEF answer, Places, Entry
<1> QED
  BY <1>1, <1>2, <1>3, <1>4, <1>5, <1>6, <1>7, <1>8 DEF ViewNext

LEMMA ValuesStep ==
  ASSUME TypeInv, Values, [ViewNext]_viewVars
  PROVE  Values'
<1>1. ASSUME NEW n, Ask(n) PROVE Values'
  <2>1. left' = {} /\ DOMAIN value' = {}
    BY <1>1, NothingHeld DEF Ask
  <2> QED
    BY <2>1 DEF Values
<1>2. CASE Forgotten
  <2>1. left' = {} /\ DOMAIN value' = {}
    BY <1>2, NothingHeld DEF Forgotten
  <2> QED
    BY <2>1 DEF Values
<1>3. CASE Statted
  BY <1>3 DEF Statted, Values, Entry, ValueStates
<1>4. ASSUME NEW x \in Leaf, ReadActive(x) PROVE Values'
  <2>1. /\ x \in left /\ left' = left /\ level' = level
        /\ DOMAIN value' = DOMAIN value \union {x}
        /\ \A y \in DOMAIN value' : value'[y] = IF y = x THEN [v \in active.val[x] |-> "DELETE"]
                                                ELSE value[y]
    BY <1>4 DEF ReadActive
  <2>2. ValueStates([v \in active.val[x] |-> "DELETE"])
    BY DEF ValueStates, State, TypeInv, Config, Plain
  <2>3. \A y \in DOMAIN value' : ValueStates(value'[y])
    BY <2>1, <2>2 DEF Values
  <2> QED
    BY <2>1, <2>3 DEF Values, Entry, ValueStates
<1>5. ASSUME NEW x \in Leaf, ReadMerged(x) PROVE Values'
  <2> DEFINE w == [v \in DOMAIN value[x] \union Merged.val[x] |->
                     IF v \notin Merged.val[x] THEN "DELETE"
                     ELSE IF v \in DOMAIN value[x] THEN "ACTIVE" ELSE "SET"]
  <2>1. /\ x \in DOMAIN value /\ left' = left \ {x} /\ level' = level
        /\ value' = [value EXCEPT ![x] = w]
    BY <1>5 DEF ReadMerged
  <2>2. DOMAIN value[x] \union Merged.val[x] \subseteq Value
    BY <2>1, MergedOK DEF Values, ValueStates
  <2>3. ValueStates(w)
    BY <2>2 DEF ValueStates, State
  <2>4. DOMAIN value' = DOMAIN value /\ \A y \in DOMAIN value : ValueStates(value'[y])
    BY <2>1, <2>3 DEF Values
  <2> QED
    BY <2>1, <2>4 DEF Values, Entry, ValueStates
<1>6. CASE ListActive \/ ListMerged \/ Answer \/ Meanwhile \/ UNCHANGED viewVars
  <2>1. left' = left /\ level' = level /\ value' = value
    BY <1>6 DEF ListActive, ListMerged, Answer, Meanwhile, viewVars, answer
  <2> QED
    BY <2>1 DEF Values, Entry, ValueStates
<1>7. ASSUME NEW p \in Node, Stat(p) PROVE Values'
  BY <1>7 DEF Stat, Values, Entry, ValueStates
<1> QED
  BY <1>1, <1>2, <1>3, <1>4, <1>5, <1>6, <1>7 DEF ViewNext

LEMMA PlacesInvariant == ViewSpec => [](TypeInv /\ DoneInv /\ Places /\ Values)
<1>1. ViewInit => Places /\ Values
  BY DEF ViewInit, Places, Values
<1> QED
  BY <1>1, ViewDone, PlacesStep, ValuesStep, PTL DEF ViewSpec, viewVars

\* Types: what a request has listed lies at its level, and only what it found in both
\* configurations, shown as deleted so far, is still to be looked up.
THEOREM ViewTypes == ViewSpec => []ViewTypeOK
<1>1. TypeInv /\ Places /\ Values => ViewTypeOK
  BY TypeInvTypeOK DEF Places, Values, ValueStates, ViewTypeOK
<1> QED
  BY <1>1, PlacesInvariant, PTL

Late == {"stat", "values", "answered"}

\* What an entry is shown with, once the union is listed
Tells(p) ==
  IF p \notin active.dir THEN "SET"
  ELSE IF p \notin View.dir \/ p \in rest THEN "DELETE"
  ELSE IF p \in changes.dir THEN "ACTIVE_PLUS" ELSE "ACTIVE"

ValueTold(x) ==
  IF x \in left
  THEN DOMAIN value[x] = active.val[x] /\ \A v \in DOMAIN value[x] : value[x][v] = "DELETE"
  ELSE /\ DOMAIN value[x] = active.val[x] \union View.val[x]
       /\ \A v \in DOMAIN value[x] : value[x][v] # "DELETE" <=> v \in View.val[x]

\* If nothing changed since, what has been read is what there is.
Told ==
  rpc # "idle" /\ steady =>
    /\ mounted
    /\ rpc = "merged" => DOMAIN shown = Entry(level) \intersect active.dir
    /\ rpc \in Late => /\ DOMAIN shown = Entry(level) \intersect (active.dir \union View.dir)
                       /\ \A p \in DOMAIN shown : shown[p] = Tells(p)
    /\ rest \subseteq active.dir \intersect View.dir
    /\ rpc \in {"values", "answered"} => rest = {}

ValuesRead ==
  rpc # "idle" /\ steady =>
    /\ rpc \notin {"values", "answered"} => DOMAIN value = {}
    /\ \A x \in DOMAIN value : ValueTold(x)
    /\ rpc = "answered" => left = {}

\* A step of the request's finds the configurations as they were.
LEMMA StillAll ==
  ASSUME UNCHANGED vars
  PROVE  UNCHANGED <<active, changes, mounted>> /\ View' = View /\ Merged' = Merged
  BY Still DEF vars, state, View

LEMMA ToldStep ==
  ASSUME Places, Told, [ViewNext]_viewVars
  PROVE  Told'
<1> SUFFICES ASSUME rpc' # "idle", steady' PROVE Told'
  BY DEF Told
<1>1. ASSUME NEW n, Ask(n) PROVE Told'
  <2>1. rpc' = "active" /\ steady' = mounted /\ mounted' = mounted /\ rest' = {}
    BY <1>1, NothingHeld, StillAll DEF Ask
  <2> QED
    BY <2>1 DEF Told, Late
<1>2. CASE ListActive
  <2>1. /\ rpc = "active" /\ rpc' = "merged" /\ level' = level /\ rest' = rest /\ steady' = steady
        /\ DOMAIN shown' = Entry(level) \intersect active.dir
        /\ UNCHANGED <<active, changes, mounted>> /\ View' = View
    BY <1>2, StillAll DEF ListActive, history
  <2> QED
    BY <2>1 DEF Told, Late, Entry
<1>3. CASE ListMerged
  <2> DEFINE found == Entry(level) \intersect Merged.dir
  <2>1. /\ rpc = "merged" /\ rpc' = "stat" /\ level' = level /\ steady' = steady
        /\ DOMAIN shown' = found \union DOMAIN shown
        /\ \A p \in DOMAIN shown' : shown'[p] = IF p \in DOMAIN shown THEN shown[p] ELSE "SET"
        /\ rest' = found \intersect DOMAIN shown
        /\ UNCHANGED <<active, changes, mounted>> /\ View' = View
    BY <1>3, StillAll DEF ListMerged, history
  <2>2. /\ mounted /\ Merged.dir = View.dir /\ DOMAIN shown = Entry(level) \intersect active.dir
        /\ \A p \in DOMAIN shown : shown[p] = "DELETE"
    BY <2>1 DEF Told, Places, Merged
  <2>3. \A p \in DOMAIN shown' : shown'[p] = Tells(p)'
    BY <2>1, <2>2 DEF Tells
  <2>4. DOMAIN shown' = Entry(level) \intersect (active.dir \union View.dir)
    BY <2>1, <2>2
  <2> QED
    BY <2>1, <2>2, <2>3, <2>4 DEF Told, Entry
<1>4. ASSUME NEW p \in Node, Stat(p) PROVE Told'
  <2>1. /\ rpc = "stat" /\ rpc' = "stat" /\ level' = level /\ steady' = steady
        /\ p \in rest /\ rest' = rest \ {p}
        /\ DOMAIN shown' = DOMAIN shown
        /\ \A q \in DOMAIN shown : q # p => shown'[q] = shown[q]
        /\ UNCHANGED <<active, changes, mounted>> /\ View' = View
    BY <1>4, StillAll DEF Stat, history
  <2>2. shown'[p] = IF p \in changes.dir THEN "ACTIVE_PLUS" ELSE "ACTIVE"
    BY <1>4, <2>1 DEF Stat, Places
  <2>3. p \in active.dir \intersect View.dir /\ mounted
    BY <2>1 DEF Told
  <2>4. \A q \in DOMAIN shown : shown[q] = Tells(q)
    BY <2>1 DEF Told, Late
  <2>5. \A q \in DOMAIN shown' : shown'[q] = Tells(q)'
    BY <2>1, <2>2, <2>3, <2>4 DEF Tells
  <2> QED
    BY <2>1, <2>5 DEF Told, Entry, Late
<1>5. ASSUME UNCHANGED <<vars, level, shown, rest, history>>,
             rpc' = rpc \/ (rpc \in Late /\ rpc' \in Late /\ rest = {})
      PROVE  Told'
  <2>1. /\ UNCHANGED <<active, changes, mounted, level, shown, rest, steady>> /\ View' = View
    BY <1>5, StillAll DEF history
  <2> QED
    BY <1>5, <2>1 DEF Told, Entry, Late, Tells
<1>6. CASE Statted \/ Answer
  BY <1>5, <1>6 DEF Statted, Answer, Late, Told, history
<1>7. ASSUME NEW x \in Leaf, ReadActive(x) \/ ReadMerged(x) PROVE Told'
  BY <1>5, <1>7 DEF ReadActive, ReadMerged
<1>8. CASE Forgotten
  BY <1>8 DEF Forgotten, Told
<1>9. CASE Meanwhile
  <2>1. /\ UNCHANGED <<rpc, level, shown, rest, active, changes, mounted>> /\ steady
        /\ View' = View
    BY <1>9 DEF Meanwhile, answer, View
  <2> QED
    BY <2>1 DEF Told, Entry, Late, Tells
<1>10. CASE UNCHANGED viewVars
  <2>1. UNCHANGED <<vars, level, shown, rest, history>> /\ rpc' = rpc
    BY <1>10 DEF viewVars, answer
  <2> QED
    BY <1>5, <2>1
<1> QED
  BY <1>1, <1>2, <1>3, <1>4, <1>6, <1>7, <1>8, <1>9, <1>10 DEF ViewNext

LEMMA ValuesReadStep ==
  ASSUME Places, Values, Told, ValuesRead, [ViewNext]_viewVars
  PROVE  ValuesRead'
<1>1. ASSUME NEW n, Ask(n) PROVE ValuesRead'
  <2>1. rpc' = "active" /\ DOMAIN value' = {}
    BY <1>1, NothingHeld DEF Ask
  <2> QED
    BY <2>1 DEF ValuesRead
<1>2. ASSUME UNCHANGED <<active, changes, left, value>>, steady' => steady,
             rpc' = rpc \/ (rpc \notin {"idle", "values", "answered"}
                             /\ rpc' \notin {"idle", "values", "answered"})
      PROVE  ValuesRead'
  <2>1. View' = View
    BY <1>2 DEF View
  <2>2. \A x : ValueTold(x)' <=> ValueTold(x)
    BY <1>2, <2>1 DEF ValueTold
  <2> QED
    BY <1>2, <2>2 DEF ValuesRead
<1>3. CASE ListActive \/ ListMerged
  BY <1>2, <1>3, StillAll DEF ListActive, ListMerged, history
<1>4. ASSUME NEW p \in Node, Stat(p) PROVE ValuesRead'
  BY <1>2, <1>4, StillAll DEF Stat, history
<1>5. CASE Statted
  <2>1. rpc = "stat" /\ rpc' = "values" /\ value' = value /\ steady' = steady
    BY <1>5 DEF Statted, history
  <2> QED
    BY <2>1 DEF ValuesRead
<1>6. ASSUME NEW x \in Leaf, ReadActive(x) PROVE ValuesRead'
  <2>1. /\ rpc = "values" /\ rpc' = rpc /\ x \in left /\ left' = left /\ steady' = steady
        /\ UNCHANGED <<active, changes>> /\ View' = View
        /\ DOMAIN value' = DOMAIN value \union {x}
        /\ \A y \in DOMAIN value' : value'[y] = IF y = x THEN [v \in active.val[x] |-> "DELETE"]
                                                ELSE value[y]
    BY <1>6, StillAll DEF ReadActive, history
  <2>2. ValueTold(x)'
    <3>1. value'[x] = [v \in active.val[x] |-> "DELETE"]
      BY <2>1
    <3> QED
      BY <2>1, <3>1 DEF ValueTold
  <2>3. ASSUME steady, NEW y \in DOMAIN value, y # x PROVE ValueTold(y)'
    <3>1. ValueTold(y) /\ value'[y] = value[y]
      BY <2>1, <2>3 DEF ValuesRead
    <3> QED
      BY <2>1, <3>1 DEF ValueTold
  <2> QED
    BY <2>1, <2>2, <2>3 DEF ValuesRead
<1>7. ASSUME NEW x \in Leaf, ReadMerged(x) PROVE ValuesRead'
  <2> DEFINE w == [v \in DOMAIN value[x] \union Merged.val[x] |->
                     IF v \notin Merged.val[x] THEN "DELETE"
                     ELSE IF v \in DOMAIN value[x] THEN "ACTIVE" ELSE "SET"]
  <2>1. /\ rpc = "values" /\ rpc' = rpc /\ x \in left \intersect DOMAIN value /\ left' = left \ {x}
        /\ steady' = steady /\ value' = [value EXCEPT ![x] = w]
        /\ UNCHANGED <<active, changes>> /\ View' = View
    BY <1>7, StillAll DEF ReadMerged, history
  <2>2. /\ DOMAIN value' = DOMAIN value /\ value'[x] = w
        /\ \A y \in DOMAIN value : y # x => value'[y] = value[y]
    BY <2>1
  <2>3. ASSUME steady PROVE ValueTold(x)'
    <3>1. Merged.val = View.val /\ DOMAIN value[x] = active.val[x]
      BY <2>1, <2>3 DEF Told, ValuesRead, ValueTold, Merged
    <3> QED
      BY <2>1, <2>2, <3>1 DEF ValueTold
  <2>4. steady => \A y \in DOMAIN value : y # x => ValueTold(y)'
    BY <2>1, <2>2 DEF ValuesRead, ValueTold
  <2> QED
    BY <2>1, <2>2, <2>3, <2>4 DEF ValuesRead
<1>8. CASE Answer
  <2>1. /\ rpc = "values" /\ rpc' = "answered" /\ left = {} /\ value' = value /\ left' = left
        /\ steady' = steady /\ UNCHANGED <<active, changes>> /\ View' = View
    BY <1>8, StillAll DEF Answer, history
  <2> QED
    BY <2>1 DEF ValuesRead, ValueTold
<1>9. CASE Forgotten
  BY <1>9 DEF Forgotten, ValuesRead
<1>10. CASE Meanwhile
  <2>1. rpc' = rpc /\ left' = left /\ value' = value
    BY <1>10 DEF Meanwhile, answer
  <2>2. CASE rpc = "idle"
    BY <2>1, <2>2 DEF ValuesRead
  <2>3. CASE rpc # "idle"
    <3>1. steady' => steady /\ UNCHANGED <<active, changes>>
      BY <1>10, <2>3 DEF Meanwhile
    <3> QED
      BY <1>2, <2>1, <3>1 DEF ValuesRead
  <2> QED
    BY <2>2, <2>3
<1>11. CASE UNCHANGED viewVars
  BY <1>2, <1>11, StillAll DEF viewVars, answer, history
<1> QED
  BY <1>1, <1>3, <1>4, <1>5, <1>6, <1>7, <1>8, <1>9, <1>10, <1>11 DEF ViewNext

\* What neither was made nor deleted nor hidden, and is still seen, has nothing to commit
\* below it: changes below leave a directory in the changes.
LEMMA NothingBelow ==
  ASSUME TypeInv, Layered(changes), NEW p \in View.dir \ DOMAIN Operations
  PROVE  At(p) \intersect DOMAIN Operations = {}
<1>1. /\ changes \in Layer /\ Closed(changes.dir) /\ changes.opq \subseteq changes.dir
      /\ changes.wh \intersect changes.dir = {} /\ active \in Plain
  BY DEF TypeInv, Config, LayerOK, Sound
<1>2. /\ DOMAIN Operations = changes.dir \union Deleted \union Hidden
      /\ View.dir = changes.dir \union {q \in active.dir : ~Covered(changes, q)}
  BY DEF Operations, View, Union
<1>3. p \in Node /\ p \notin changes.dir /\ ~Covered(changes, p)
  BY <1>1, <1>2 DEF Plain
<1> SUFFICES ASSUME NEW q \in DOMAIN Operations, p \in Above[q], q \in Node PROVE FALSE
  BY <1>1, <1>2 DEF At, Below
<1>4. CASE q \in changes.dir
  BY <1>1, <1>3, <1>4 DEF Closed
<1>5. CASE q \in Deleted
  <2>1. PICK w \in changes.wh : q = w \/ w \in Above[q]
    BY <1>5 DEF Deleted, Below
  <2>2. w \in Node /\ p \notin Above[w]
    BY <1>1, <1>3 DEF Layered, Layer
  <2>3. w \in Above[q] /\ w # p
    BY <1>3, <2>1, <2>2 DEF Covered
  <2>4. w \in Above[p]
    BY <1>3, <2>2, <2>3, NodesOK
  <2> QED
    BY <1>3, <2>4 DEF Covered
<1>6. CASE q \in Hidden
  <2>1. PICK r \in changes.opq : p \in Above[r] \union {r}
    BY <1>6 DEF Hidden, Inside
  <2> QED
    BY <1>1, <1>3, <2>1 DEF Closed
<1> QED
  BY <1>2, <1>4, <1>5, <1>6

\* If nothing changed while a level was read, it shows what a commit would do: for any
\* configurations and any edits, and whatever earlier commits left behind in the changes.
THEOREM ShowsCommitTheorem == ViewSpec => []ShowsCommit
<1>1. ViewInit => Told /\ ValuesRead
  BY DEF ViewInit, Told, ValuesRead
<1>2. ASSUME TypeInv, DoneInv, Places, Values, Told, ValuesRead PROVE ShowsCommit
  <2> SUFFICES ASSUME rpc = "answered", steady PROVE ShowsCommit
    BY DEF ShowsCommit
  <2>1. /\ DOMAIN shown = Entry(level) \intersect (active.dir \union View.dir)
        /\ \A p \in DOMAIN shown : shown[p] = Tells(p)
        /\ rest = {} /\ left = {} /\ \A x \in DOMAIN value : ValueTold(x)
    BY <1>2 DEF Told, ValuesRead, Late
  <2>2. Layered(changes)
    BY <1>2 DEF DoneInv
  <2>3. ASSUME NEW p \in DOMAIN shown
        PROVE  IF p \in DOMAIN Operations THEN shown[p] = Meaning[Operations[p]]
               ELSE \/ shown[p] = "ACTIVE" /\ At(p) \intersect DOMAIN Operations = {}
                    \/ shown[p] = "DELETE"
                       /\ \E q \in DOMAIN Operations : Operations[q] = "DEL" /\ p \in At(q)
    <3>1. p \in active.dir \union View.dir /\ shown[p] = Tells(p)
      BY <2>1
    <3>2. CASE p \in DOMAIN Operations
      <4>1. Operations[p] \in Op
        BY <1>2, <3>2, ReadTypes
      <4>2. /\ Operations[p] = "DEL" => p \notin View.dir
            /\ Operations[p] # "DEL" => p \in View.dir
            /\ Operations[p] = "CREATE" => p \notin active.dir
        BY <1>2, <3>2, ReadKnown
      <4>3. /\ Operations[p] = "DEL" <=> p \notin changes.dir
            /\ Operations[p] = "NO_OP" => p \in active.dir
        BY <1>2, <2>2, <3>2, ReadTells
      <4> QED
        BY <2>1, <3>1, <3>2, <4>1, <4>2, <4>3 DEF Tells, Meaning, Op
    <3>3. CASE p \notin DOMAIN Operations
      <4>1. p \notin changes.dir /\ p \in active.dir
        BY <1>2, <2>2, <3>1, <3>3, ReadTells
      <4>2. CASE p \in View.dir
        <5>1. shown[p] = "ACTIVE"
          BY <2>1, <3>1, <4>1, <4>2 DEF Tells
        <5> QED
          BY <1>2, <2>2, <3>3, <4>2, <5>1, NothingBelow
      <4>3. CASE p \notin View.dir
        <5>1. shown[p] = "DELETE"
          BY <3>1, <4>1, <4>3 DEF Tells
        <5> QED
          BY <1>2, <2>2, <3>3, <4>1, <4>3, <5>1, TopDeleted
      <4> QED
        BY <4>2, <4>3
    <3> QED
      BY <3>2, <3>3
  <2>4. ASSUME NEW x \in DOMAIN value
        PROVE  /\ DOMAIN value[x] = active.val[x] \union View.val[x]
               /\ {v \in DOMAIN value[x] : value[x][v] # "DELETE"} =
                    {v \in DOMAIN ValueOperations(x) : ValueOperations(x)[v] # "DEL"}
    <3>1. /\ DOMAIN value[x] = active.val[x] \union View.val[x]
          /\ \A v \in DOMAIN value[x] : value[x][v] # "DELETE" <=> v \in View.val[x]
      BY <2>1 DEF ValueTold
    <3>2. {v \in DOMAIN ValueOperations(x) : ValueOperations(x)[v] # "DEL"} = View.val[x]
      BY ValuesTell
    <3> QED
      BY <3>1, <3>2
  <2> QED
    BY <2>1, <2>3, <2>4 DEF ShowsCommit
<1> QED
  BY <1>1, <1>2, PlacesInvariant, ToldStep, ValuesReadStep, PTL DEF ViewSpec, viewVars
============================================================================
