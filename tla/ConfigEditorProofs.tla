------------------------- MODULE ConfigEditorProofs -------------------------
(* Theorems about ConfigEditor, for any tree of nodes and leaves.           *)
EXTENDS ConfigEditor, WellFoundedInduction, TLAPS

----------------------------------------------------------------------------
(* The inductive invariant, as long as no step was odd *)

Place == Node \union {Root, None}
FieldValues == {v \in [Field -> SUBSET Value] : \A f \in Field : v[f] \subseteq Choice[f]}
Handler == [do : {"sent", "path", "deleted"}, of : Place]

Form ==
  [title : Node \union {Root}, button : {"none", "Create", "Delete"},
   items : Seq(Field \union {Submit}), val : FieldValues, orig : FieldValues,
   base : FieldValues, pressed : SUBSET Field, flag : SUBSET (Field \union {Submit}),
   edited : SUBSET Field, again : SUBSET Field, twice : SUBSET Field]

UI ==
  [conf : [Node -> {"none", "set", "active", "active_plus", "delete"}],
   known : FieldValues, loaded : SUBSET Node,
   load : [Node -> SUBSET {"form", "plain", "select"}], rootload : BOOLEAN,
   handlers : Seq(Handler), sel : Place, mine : Place \union Field, showLeaf : BOOLEAN,
   form : Form, dirty : BOOLEAN, avail : BOOLEAN, offer : BOOLEAN, next : Nat, num : Nat,
   errs : SUBSET Nat, sent : SUBSET Field]

\* A leaf that is set has its node set.
Config ==
  {c \in [nodes : SUBSET Node, val : FieldValues] :
     \A f \in Field : c.val[f] # {} => Owner(f) \in c.nodes}

Types ==
  /\ ui \in UI /\ work \in Config /\ active \in Config
  /\ box \in {"none", "question", "alert", "wait"}
  /\ asked \in Node \union {None} /\ req \in Request \union {None}

\* A form has all the leaves of its node, or none, and what happened to a grid.
Full(form) == form.title \in Node /\ form.items = Append(Leaves[form.title], Submit)

Shaped(form) ==
  /\ form.items = <<>> \/ Full(form)
  /\ form.title \in Node => form.button # "none"
  /\ form.twice \subseteq form.again /\ form.again \subseteq form.pressed
  /\ form.pressed \subseteq List
  /\ form.items = <<>> => form.pressed = {}

\* What is asked of the server to fill the tree, and what waits for it.
NoLoad == [n \in Node |-> {}]
Only(n, what) == [NoLoad EXCEPT ![n] = what]

Rest(u) == ~u.rootload /\ u.load = NoLoad /\ u.handlers = <<>>

Opening(u, n) ==
  /\ ~u.rootload /\ u.load = Only(n, {"form"}) /\ u.handlers = <<>>
  /\ u.form.title = n /\ u.sel = n

Resetting(u, n) ==
  /\ ~u.rootload /\ u.load = Only(n, {"plain"})
  /\ u.handlers = <<[do |-> "sent", of |-> n]>>
  /\ u.form.title = n /\ u.sel = n

Selecting(u, n) ==
  /\ ~u.rootload /\ u.load \in {Only(n, {"select"}), Only(n, {"plain", "select"})}
  /\ u.handlers = <<>> /\ u.form = NoForm

Growing(u) ==
  /\ u.rootload /\ u.load = NoLoad /\ u.loaded = {}
  /\ \E h \in Handler : /\ u.handlers = <<h>> /\ h.do # "sent"
                        /\ h.do = "deleted" => h.of \in Node

Phase(u) ==
  \/ Rest(u)
  \/ \E n \in Node : Opening(u, n) \/ Resetting(u, n) \/ Selecting(u, n)
  \/ Growing(u)

\* The fields of the form at rest, against the session's values
Shown(form, w) == \A i \in DOMAIN form.items \ {Len(form.items)} :
  LET f == form.items[i]
  IN  /\ f \notin List => /\ f \notin form.flag => form.orig[f] = w[f]
                          /\ f \notin form.edited => form.val[f] = form.orig[f]
      /\ f \in List =>
           /\ f \notin form.pressed => form.val[f] = form.base[f]
           /\ f \notin form.again => form.base[f] = w[f]
           /\ f \notin form.twice \union form.flag \union form.edited
                => form.val[f] = w[f]

\* and while they are sent, with the answer for one of them to come, or none
Progress(u, w, p, i) ==
  LET f == u.form.items[i]
      form == u.form
  IN  /\ f \in u.sent =>
           /\ i < u.next
           /\ i \in u.errs \/ w[f] = form.val[f] \/ f = p \/ f \in form.twice
           /\ f \in Text => form.orig[f] = form.val[f]
           /\ f \in List => f \in form.again
      /\ f \notin List /\ f \notin u.sent =>
           /\ f \notin form.flag => form.orig[f] = w[f]
           /\ i < u.next => form.val[f] = form.orig[f]
      /\ f \in List =>
           /\ f \notin form.pressed => form.val[f] = form.base[f]
           /\ f \notin form.again => form.base[f] = w[f]
           /\ f \notin u.sent /\ i < u.next => f \notin form.pressed
           /\ f = p /\ f \notin form.twice => form.base[f] = w[f]

Sending(u, w, p) ==
  /\ Full(u.form) /\ u.sel = u.form.title
  /\ u.next \in 1..Len(u.form.items)
  /\ u.num = 0 => u.sent = {}
  /\ \A i \in 1..(Len(u.form.items) - 1) : Progress(u, w, p, i)

Pending == req # None /\ req.op = "field"

Waiting ==
  /\ Rest(ui)
  /\ Pending => /\ Sending(ui, work.val, req.of) /\ ui.num # 0 /\ ui.next > 1
                /\ ui.form.items[ui.next - 1] = req.of /\ req.of \in ui.sent
                /\ req = FieldRequest(ui, req.of)
  /\ req.op \in {"Create", "Delete"} => req.of = ui.form.title /\ req.of \in Node

Held ==
  /\ Types /\ Shaped(ui.form) /\ Phase(ui)
  /\ box = "wait" <=> req # None
  /\ req # None => Waiting
  /\ box = "question" => Rest(ui) /\ asked \in Node /\ ui.sel = asked
  /\ Rest(ui) /\ ui.form.title \in Node => ui.sel = ui.form.title \/ box = "question"
  /\ ~ui.rootload /\ ~Pending => Shown(ui.form, work.val)
  /\ \A n \in ui.loaded : ~(Pending /\ n = ui.sel) =>
       \A f \in ToSet(Leaves[n]) : ui.known[f] = work.val[f]
  /\ work # active =>
       ui.offer \/ ui.rootload \/ Pending \/ \E n \in Node : Resetting(ui, n)

EditorInv == odd \in Nat /\ (odd = 0 => Held)

----------------------------------------------------------------------------
(* Leaves and places *)

LEMMA LeafFacts ==
  ASSUME NEW n \in Node
  PROVE  /\ Leaves[n] \in Seq(Field) /\ Len(Leaves[n]) \in Nat \ {0}
         /\ Leaves[n] # <<>> /\ ToSet(Leaves[n]) \subseteq Field
         /\ \A i \in 1..Len(Leaves[n]) :
              /\ Leaves[n][i] \in Field /\ Leaves[n][i] \in ToSet(Leaves[n])
              /\ Owner(Leaves[n][i]) = n
              /\ \A j \in 1..Len(Leaves[n]) : Leaves[n][i] = Leaves[n][j] => i = j
         /\ \A f \in ToSet(Leaves[n]) : \E i \in 1..Len(Leaves[n]) : f = Leaves[n][i]
         /\ \A f \in ToSet(Leaves[n]) : Owner(f) = n
<1>1. Leaves[n] \in Seq(Field) /\ Leaves[n] # <<>> /\ IsInjective(Leaves[n])
  BY EditorOK
<1>2. Len(Leaves[n]) \in Nat \ {0} /\ DOMAIN Leaves[n] = 1..Len(Leaves[n])
  BY <1>1
<1>3. \A i \in 1..Len(Leaves[n]) : Leaves[n][i] \in Field
  BY <1>1
<1>4. \A i, j \in 1..Len(Leaves[n]) : Leaves[n][i] = Leaves[n][j] => i = j
  BY <1>1, <1>2 DEF IsInjective
<1>5. ASSUME NEW i \in 1..Len(Leaves[n]) PROVE Owner(Leaves[n][i]) = n
  <2>1. Contains(Leaves[n], Leaves[n][i])
    BY <1>2 DEF Contains
  <2>2. Contains(Leaves[Owner(Leaves[n][i])], Leaves[n][i]) /\ Owner(Leaves[n][i]) \in Node
    BY <2>1 DEF Owner
  <2> QED
    BY <1>3, <2>1, <2>2, EditorOK
<1> QED
  BY <1>1, <1>2, <1>3, <1>4, <1>5 DEF ToSet

LEMMA OwnerFacts ==
  ASSUME NEW f \in Field
  PROVE  Owner(f) \in Node /\ f \in ToSet(Leaves[Owner(f)])
<1>1. PICK n \in Node : Contains(Leaves[n], f)
  BY EditorOK
<1>2. Owner(f) \in Node /\ Contains(Leaves[Owner(f)], f)
  BY <1>1 DEF Owner
<1>3. Leaves[Owner(f)] \in Seq(Field)
  BY <1>2, EditorOK
<1> QED
  BY <1>2, <1>3 DEF Contains, ToSet

LEMMA Disjoint ==
  /\ Submit \notin Field /\ Root \notin Node /\ None \notin Node /\ Root # None
  /\ Node \intersect Field = {} /\ None \notin Field /\ Root \notin Field /\ None \notin Request
  /\ Text \subseteq Field /\ Check \subseteq Field /\ List \subseteq Field
  /\ \A f \in Field : \/ f \in Text /\ f \notin Check /\ f \notin List
                      \/ f \notin Text /\ f \in Check /\ f \notin List
                      \/ f \notin Text /\ f \notin Check /\ f \in List
  BY EditorOK DEF Field

LEMMA FullFacts ==
  ASSUME NEW form, Full(form)
  PROVE  /\ form.title \in Node /\ form.items \in Seq(Field \union {Submit})
         /\ Len(form.items) = Len(Leaves[form.title]) + 1 /\ Len(form.items) \in Nat
         /\ DOMAIN form.items = 1..Len(form.items) /\ form.items # <<>>
         /\ form.items[Len(form.items)] = Submit
         /\ \A i \in 1..(Len(form.items) - 1) :
              /\ form.items[i] = Leaves[form.title][i] /\ form.items[i] \in Field
              /\ form.items[i] # Submit
              /\ \A j \in 1..(Len(form.items) - 1) :
                   form.items[i] = form.items[j] => i = j
         /\ ToSet(form.items) = ToSet(Leaves[form.title]) \union {Submit}
         /\ Contains(form.items, Submit)
<1> DEFINE n == form.title
           s == Leaves[n]
<1>1. n \in Node /\ form.items = Append(s, Submit)
  BY DEF Full
<1>2. s \in Seq(Field) /\ Len(s) \in Nat
  BY <1>1, LeafFacts
<1>3. /\ Append(s, Submit) \in Seq(Field \union {Submit})
      /\ Len(Append(s, Submit)) = Len(s) + 1
      /\ DOMAIN Append(s, Submit) = 1..(Len(s) + 1)
      /\ Append(s, Submit)[Len(s) + 1] = Submit
      /\ \A i \in 1..Len(s) : Append(s, Submit)[i] = s[i]
  BY <1>2
<1> HIDE DEF s, n
<1>4. ToSet(Append(s, Submit)) = ToSet(s) \union {Submit}
  BY <1>2, <1>3 DEF ToSet
<1>5. Contains(Append(s, Submit), Submit)
  BY <1>2, <1>3 DEF Contains
<1>6. Append(s, Submit) # <<>>
  BY <1>2, <1>3
<1>7. \A i \in 1..Len(s) : s[i] \in Field /\ s[i] # Submit
                           /\ \A j \in 1..Len(s) : s[i] = s[j] => i = j
  BY <1>1, LeafFacts, Disjoint DEF s
<1>8. /\ Len(form.items) = Len(s) + 1 /\ (Len(s) + 1) - 1 = Len(s)
  BY <1>1, <1>2, <1>3 DEF s
<1> QED
  BY <1>1, <1>2, <1>3, <1>4, <1>5, <1>6, <1>7, <1>8 DEF s, n

----------------------------------------------------------------------------
(* The next field to send: the first that is changed, or the Set button, which *)
(* is last.                                                                    *)

Less == {ss \in Nat \X Nat : ss[1] < ss[2]}

LEMMA LessWellFounded == IsWellFoundedOn(Less, Nat)
<1>1. Less = OpToRel(<, Nat)
  BY DEF Less, OpToRel
<1> QED
  BY <1>1, NatLessThanWellFounded

LEMMA Least ==
  ASSUME NEW T \in SUBSET Nat, T # {}
  PROVE  Min(T) \in T /\ \A n \in T : Min(T) <= n
<1>1. PICK m \in T : \A n \in T : <<n, m>> \notin Less
  BY LessWellFounded, WFMin
<1>2. ASSUME NEW n \in T PROVE m <= n
  <2>1. <<n, m>> \in Nat \X Nat /\ ~(<<n, m>>[1] < <<n, m>>[2])
    BY <1>1 DEF Less
  <2> QED
    BY <2>1
<1> QED
  BY <1>2 DEF Min

LEMMA NextPlaceIs ==
  ASSUME NEW form, Full(form), NEW k \in 1..Len(form.items)
  PROVE  /\ NextPlace(form, k) \in k..Len(form.items)
         /\ \/ NextPlace(form, k) = Len(form.items)
            \/ IsChanged(form, form.items[NextPlace(form, k)])
         /\ \A i \in k..(NextPlace(form, k) - 1) : ~IsChanged(form, form.items[i])
<1> DEFINE len == Len(form.items)
           T == {i \in k..len : form.items[i] = Submit \/ IsChanged(form, form.items[i])}
<1>1. len \in Nat /\ form.items[len] = Submit
  BY FullFacts
<1>2. T \in SUBSET Nat /\ len \in T
  BY <1>1
<1>3. NextPlace(form, k) = Min(T)
  BY <1>2 DEF NextPlace, SelectInSubSeq
<1> DEFINE j == Min(T)
<1>4. j \in T /\ \A i \in T : j <= i
  BY <1>2, Least
<1> HIDE DEF j
<1>5. j \in k..len /\ (form.items[j] = Submit \/ IsChanged(form, form.items[j]))
  BY <1>4
<1>6. j # len => form.items[j] # Submit
  BY <1>1, <1>5, FullFacts
<1>7. ASSUME NEW i \in k..(j - 1), IsChanged(form, form.items[i]) PROVE FALSE
  <2>1. i \in T /\ i < j
    BY <1>1, <1>5, <1>7
  <2> QED
    BY <1>1, <1>4, <1>5, <2>1
<1> QED
  BY <1>3, <1>5, <1>6, <1>7 DEF j

----------------------------------------------------------------------------
(* What each helper does to the form and to the tree *)

\* What stays when a form is filled
SameTree(u, v) ==
  /\ v.conf = u.conf /\ v.known = u.known /\ v.loaded = u.loaded
  /\ v.rootload = u.rootload /\ v.handlers = u.handlers /\ v.sel = u.sel
  /\ v.avail = u.avail /\ v.offer = u.offer

LEMMA EmptyValues == Empty \in FieldValues
  BY DEF Empty, FieldValues

LEMMA NoFormFacts == NoForm \in Form /\ Shaped(NoForm) /\ \A w : Shown(NoForm, w)
<1>1. NoForm \in Form
  BY EmptyValues DEF NoForm, Form
<1>2. /\ NoForm.items = <<>> /\ NoForm.title = Root /\ NoForm.pressed = {}
      /\ NoForm.again = {} /\ NoForm.twice = {}
  BY DEF NoForm
<1>3. Shaped(NoForm)
  BY <1>2, Disjoint DEF Shaped
<1>4. \A w : Shown(NoForm, w)
  BY <1>2 DEF Shown
<1> QED
  BY <1>1, <1>3, <1>4

LEMMA MadeFacts ==
  ASSUME NEW u \in UI, NEW fn \in FieldValues, NEW fields \in SUBSET Field
  PROVE  /\ Made(fn, u, fields) \in FieldValues
         /\ \A f \in fields : Made(fn, u, fields)[f] = u.known[f]
         /\ fields = {} => Made(fn, u, fields) = fn
<1>1. u.known \in FieldValues
  BY DEF UI
<1>2. Made(fn, u, fields) \in FieldValues
  BY <1>1 DEF Made, FieldValues
<1>3. \A f \in fields : Made(fn, u, fields)[f] = u.known[f]
  BY DEF Made
<1>4. fields = {} => Made(fn, u, fields) = fn
  BY DEF Made, FieldValues
<1> QED
  BY <1>2, <1>3, <1>4

LEMMA FillFacts ==
  ASSUME NEW u \in UI, NEW n \in Node, Shaped(u.form), u.form.title = n
  PROVE  LET v == Fill(u, n)
         IN  /\ v \in UI /\ SameTree(u, v) /\ v.load = u.load
             /\ Shaped(v.form) /\ v.form.title = n
             /\ \/ v.form = u.form
                \/ /\ u.form.items = <<>> /\ Full(v.form)
                   /\ v.form.items = Append(Leaves[n], Submit)
                   /\ \A f \in ToSet(Leaves[n]) :
                        /\ v.form.val[f] = u.known[f] /\ v.form.orig[f] = u.known[f]
                        /\ v.form.base[f] = u.known[f]
<1> DEFINE v == Fill(u, n)
           fields == NewFields(u, n)
           new == ToSet(fields)
           form == u.form
           items == SetButton(form.items \o fields)
<1>1. /\ form \in Form /\ form.items \in Seq(Field \union {Submit})
      /\ form.val \in FieldValues /\ form.orig \in FieldValues
      /\ form.base \in FieldValues
  BY DEF UI, Form
<1>2. fields \in Seq(Field) /\ new \subseteq Field
  BY LeafFacts DEF NewFields, ToSet
<1>3. Last(Leaves[n]) \in Field
  BY LeafFacts DEF Last
<1>4. v.form = [form EXCEPT !.items = items, !.val = Made(@, u, new),
                            !.orig = Made(@, u, new), !.base = Made(@, u, new)]
  BY DEF Fill, UI, Form
<1>5. items \in Seq(Field \union {Submit})
  <2>1. form.items \o fields \in Seq(Field \union {Submit})
    BY <1>1, <1>2
  <2> QED
    BY <2>1 DEF SetButton
<1>6. /\ Made(form.val, u, new) \in FieldValues /\ Made(form.orig, u, new) \in FieldValues
      /\ Made(form.base, u, new) \in FieldValues
  BY <1>1, <1>2, MadeFacts
<1>7. v.form \in Form
  BY <1>1, <1>4, <1>5, <1>6 DEF Form
<1>8. v = [u EXCEPT !.mine = Last(Leaves[n]), !.form = v.form]
  BY <1>4 DEF Fill, UI, Form
<1>9. v \in UI /\ SameTree(u, v) /\ v.load = u.load
  <2> HIDE DEF v
  <2> QED
    BY <1>3, <1>7, <1>8 DEF UI, SameTree
<1>10. /\ v.form.title = n /\ v.form.items = items
       /\ v.form.val = Made(form.val, u, new) /\ v.form.orig = Made(form.orig, u, new)
       /\ v.form.base = Made(form.base, u, new) /\ v.form.button = form.button
       /\ v.form.pressed = form.pressed /\ v.form.flag = form.flag
       /\ v.form.edited = form.edited /\ v.form.again = form.again
       /\ v.form.twice = form.twice
  BY <1>1, <1>4 DEF Form
<1>11. CASE fields = <<>>
  <2>1. new = {} /\ form.items \o fields = form.items
    BY <1>1, <1>11 DEF ToSet
  <2>2. items = form.items
    BY <2>1, FullFacts DEF SetButton, Shaped
  <2>3. /\ v.form.val = form.val /\ v.form.orig = form.orig /\ v.form.base = form.base
    BY <1>1, <1>2, <1>10, <2>1, MadeFacts
  <2>4. v.form = form
    <3> HIDE DEF v
    <3> QED
      BY <1>1, <1>7, <1>10, <2>2, <2>3 DEF Form
  <2> QED
    BY <1>9, <2>4
<1>12. CASE fields # <<>>
  <2>1. fields = Leaves[n] /\ ~(ToSet(Leaves[n]) \subseteq ToSet(form.items))
    BY <1>12 DEF NewFields
  <2>2. form.items = <<>>
    BY <2>1, FullFacts DEF Shaped
  <2>3. form.items \o fields = Leaves[n]
    BY <2>1, <2>2, LeafFacts
  <2>4. ~Contains(Leaves[n], Submit)
    BY LeafFacts, Disjoint DEF Contains
  <2>5. items = Append(Leaves[n], Submit)
    BY <2>3, <2>4, LeafFacts DEF SetButton
  <2>6. Full(v.form)
    BY <1>10, <2>5 DEF Full
  <2>7. Append(Leaves[n], Submit) # <<>>
    BY <1>10, <2>5, <2>6, FullFacts
  <2>8. Shaped(v.form)
    BY <1>10, <2>2, <2>5, <2>6, <2>7 DEF Shaped
  <2>9. \A f \in ToSet(Leaves[n]) :
          /\ v.form.val[f] = u.known[f] /\ v.form.orig[f] = u.known[f]
          /\ v.form.base[f] = u.known[f]
    BY <1>1, <1>2, <1>10, <2>1, MadeFacts
  <2> QED
    BY <1>9, <1>10, <2>2, <2>5, <2>6, <2>8, <2>9
<1> QED
  BY <1>11, <1>12

LEMMA FillShown ==
  ASSUME NEW u \in UI, NEW n \in Node, Shaped(u.form), u.form.title = n,
         NEW w, Shown(u.form, w), \A f \in ToSet(Leaves[n]) : u.known[f] = w[f]
  PROVE  Shown(Fill(u, n).form, w)
<1> DEFINE form == Fill(u, n).form
<1>1. CASE form = u.form
  BY <1>1
<1>2. CASE /\ form.items = Append(Leaves[n], Submit) /\ Full(form)
           /\ form.title = n
           /\ \A f \in ToSet(Leaves[n]) :
                form.val[f] = w[f] /\ form.orig[f] = w[f] /\ form.base[f] = w[f]
  <2> HIDE DEF form
  <2>1. \A i \in DOMAIN form.items \ {Len(form.items)} :
          form.items[i] \in ToSet(Leaves[n])
    BY <1>2, FullFacts, LeafFacts
  <2>2. ASSUME NEW i \in DOMAIN form.items \ {Len(form.items)}
        PROVE  LET f == form.items[i]
               IN  form.val[f] = w[f] /\ form.orig[f] = w[f] /\ form.base[f] = w[f]
    BY <1>2, <2>1
  <2> QED
    BY <2>2 DEF Shown, form
<1> QED
  BY <1>1, <1>2, FillFacts

LEMMA ButtonFacts ==
  ASSUME NEW u, NEW n PROVE Button(u, n) \in {"Create", "Delete"}
  BY DEF Button

LEMMA BlankShown ==
  ASSUME NEW form, form.items = <<>>, NEW w PROVE Shown(form, w)
  BY DEF Shown

\* The part of HandleClick before a form is filled
Titled(u, n, b) ==
  [u EXCEPT !.mine = n, !.showLeaf = b = "Delete",
            !.form = IF @.title = n THEN @ ELSE [NoForm EXCEPT !.title = n, !.button = b]]

LEMMA TitledFacts ==
  ASSUME NEW u \in UI, NEW n \in Node \union {Root}, Shaped(u.form),
         NEW b \in {"Create", "Delete"}
  PROVE  LET v == Titled(u, n, b)
         IN  /\ v \in UI /\ SameTree(u, v) /\ v.load = u.load
             /\ Shaped(v.form) /\ v.form.title = n
             /\ IF u.form.title = n THEN v.form = u.form ELSE v.form.items = <<>>
<1> DEFINE v == Titled(u, n, b)
           leaf == b = "Delete"
           fresh == [NoForm EXCEPT !.title = n, !.button = b]
           form == IF u.form.title = n THEN u.form ELSE fresh
<1>1. v = [u EXCEPT !.mine = n, !.showLeaf = leaf, !.form = form]
  BY DEF Titled, UI
<1>2. leaf \in BOOLEAN
  OBVIOUS
<1>3. /\ fresh.items = <<>> /\ fresh.title = n /\ fresh.button = b
      /\ fresh.pressed = {} /\ fresh.again = {} /\ fresh.twice = {}
  BY DEF NoForm
<1>4. fresh \in Form
  BY NoFormFacts DEF Form
<1> HIDE DEF leaf, fresh, v
<1>5. Shaped(fresh)
  BY <1>3 DEF Shaped
<1>6. form \in Form /\ form.title = n /\ Shaped(form)
  BY <1>3, <1>4, <1>5 DEF UI
<1> HIDE DEF form
<1>7. v \in UI /\ SameTree(u, v) /\ v.load = u.load /\ v.form = form
  BY <1>1, <1>2, <1>6 DEF UI, SameTree, Place
<1> QED
  BY <1>3, <1>5, <1>6, <1>7 DEF v, form

\* A form that is clicked on, as it was or new, agrees with what was loaded.
KeepsShown(u, v, n) == \A w :
  /\ u.form.title = n => Shown(u.form, w)
  /\ n \in u.loaded => \A f \in ToSet(Leaves[n]) : u.known[f] = w[f]
  => Shown(v.form, w)

LEMMA ClickFacts ==
  ASSUME NEW u \in UI, NEW n \in Node, Shaped(u.form)
  PROVE  LET v == HandleClick(u, n)
         IN  /\ v \in UI /\ SameTree(u, v)
             /\ v.load = IF n \in u.loaded THEN u.load
                         ELSE [u.load EXCEPT ![n] = @ \union {"form"}]
             /\ Shaped(v.form) /\ v.form.title = n
             /\ KeepsShown(u, v, n)
<1> DEFINE t == Titled(u, n, Button(u, n))
           v == HandleClick(u, n)
<1>2. /\ t \in UI /\ SameTree(u, t) /\ t.load = u.load
      /\ Shaped(t.form) /\ t.form.title = n
      /\ IF u.form.title = n THEN t.form = u.form ELSE t.form.items = <<>>
  <2>1. Button(u, n) \in {"Create", "Delete"} /\ n \in Node \union {Root}
    BY ButtonFacts
  <2> QED
    BY <2>1, TitledFacts
<1>3. n # Root
  BY Disjoint
<1>4. v = IF n \in u.loaded THEN Fill(t, n)
          ELSE [t EXCEPT !.load[n] = @ \union {"form"}]
  BY <1>3 DEF HandleClick, Titled
<1> HIDE DEF t, v
<1>5. CASE n \in u.loaded
  <2>1. /\ v \in UI /\ SameTree(t, v) /\ v.load = t.load
        /\ Shaped(v.form) /\ v.form.title = n
    BY <1>2, <1>4, <1>5, FillFacts
  <2>2. SameTree(u, v)
    BY <1>2, <2>1 DEF SameTree
  <2>3. ASSUME NEW w, u.form.title = n => Shown(u.form, w),
               \A f \in ToSet(Leaves[n]) : u.known[f] = w[f]
        PROVE  Shown(v.form, w)
    <3>1. Shown(t.form, w)
      BY <1>2, <2>3, BlankShown
    <3>2. \A f \in ToSet(Leaves[n]) : t.known[f] = w[f]
      BY <1>2, <2>3 DEF SameTree
    <3> QED
      BY <1>2, <1>4, <1>5, <3>1, <3>2, FillShown
  <2> QED
    BY <1>2, <1>5, <2>1, <2>2, <2>3 DEF v, KeepsShown
<1>6. CASE n \notin u.loaded
  <2>1. v = [t EXCEPT !.load[n] = @ \union {"form"}]
    BY <1>4, <1>6
  <2>2. v \in UI /\ v.form = t.form /\ SameTree(t, v)
        /\ v.load = [t.load EXCEPT ![n] = @ \union {"form"}]
    BY <1>2, <2>1 DEF UI, SameTree
  <2>3. SameTree(u, v)
    BY <1>2, <2>2 DEF SameTree
  <2>4. ASSUME NEW w, u.form.title = n => Shown(u.form, w) PROVE Shown(v.form, w)
    BY <1>2, <2>2, <2>4, BlankShown
  <2> QED
    BY <1>2, <1>6, <2>2, <2>3, <2>4 DEF v, KeepsShown
<1> QED
  BY <1>5, <1>6

----------------------------------------------------------------------------
(* The handlers that wait for a load: here none or one *)

LEMMA RunAllNone ==
  ASSUME NEW u \in UI, u.handlers = <<>>
  PROVE  RunAll(u) = u
<1> DEFINE Is(f) == f = [i \in 0..Len(u.handlers) |->
                           IF i = 0 THEN [u EXCEPT !.handlers = <<>>]
                           ELSE Run(f[i - 1], u.handlers[i])]
           g == CHOOSE f : Is(f)
           w == [i \in 0..0 |-> [u EXCEPT !.handlers = <<>>]]
<1>1. Len(u.handlers) = 0
  OBVIOUS
<1>2. Is(w)
  BY <1>1
<1>3. Is(g)
  BY <1>2
<1>4. RunAll(u) = g[0]
  BY <1>1 DEF RunAll
<1>5. g[0] = [u EXCEPT !.handlers = <<>>]
  <2> HIDE DEF g
  <2> QED
    BY <1>1, <1>3
<1>6. [u EXCEPT !.handlers = <<>>] = u
  BY DEF UI
<1> QED
  BY <1>4, <1>5, <1>6

LEMMA RunAllOne ==
  ASSUME NEW u \in UI, NEW h, u.handlers = <<h>>
  PROVE  RunAll(u) = Run([u EXCEPT !.handlers = <<>>], h)
<1> DEFINE u0 == [u EXCEPT !.handlers = <<>>]
           u1 == Run(u0, h)
           Is(f) == f = [i \in 0..Len(u.handlers) |->
                           IF i = 0 THEN [u EXCEPT !.handlers = <<>>]
                           ELSE Run(f[i - 1], u.handlers[i])]
           g == CHOOSE f : Is(f)
           w == [i \in 0..1 |-> IF i = 0 THEN u0 ELSE u1]
<1>1. Len(u.handlers) = 1 /\ u.handlers[1] = h
  OBVIOUS
<1>2. Is(w)
  <2> HIDE DEF u1
  <2>1. w[0] = u0 /\ w[1] = u1
    OBVIOUS
  <2>2. \A i \in 0..1 : w[i] = IF i = 0 THEN u0 ELSE Run(w[i - 1], u.handlers[i])
    BY <1>1, <2>1 DEF u1
  <2> HIDE DEF u0
  <2> QED
    BY <1>1, <2>2 DEF u0
<1>3. Is(g)
  BY <1>2
<1>4. RunAll(u) = g[1]
  BY <1>1 DEF RunAll
<1>5. g[0] = u0 /\ g[1] = Run(g[0], h)
  <2> HIDE DEF g, u0, u1
  <2> QED
    BY <1>1, <1>3 DEF u0
<1> QED
  BY <1>4, <1>5

LEMMA SelectFacts ==
  ASSUME NEW u \in UI, NEW n \in Node, Shaped(u.form)
  PROVE  LET v == Select(u, n)
         IN  /\ v \in UI /\ v.known = u.known /\ v.loaded = u.loaded
             /\ v.rootload = u.rootload /\ v.handlers = u.handlers
             /\ v.sel = n /\ v.offer = u.offer
             /\ v.load = IF n \in u.loaded THEN u.load
                         ELSE [u.load EXCEPT ![n] = @ \union {"form"}]
             /\ Shaped(v.form) /\ v.form.title = n
             /\ KeepsShown(u, v, n)
<1> DEFINE t == [u EXCEPT !.sel = n]
<1>1. /\ t \in UI /\ t.sel = n /\ t.known = u.known /\ t.loaded = u.loaded
      /\ t.rootload = u.rootload /\ t.handlers = u.handlers /\ t.form = u.form
      /\ t.load = u.load /\ t.offer = u.offer
  BY DEF UI, Place
<1>2. Select(u, n) = HandleClick(t, n)
  BY DEF Select
<1> HIDE DEF t
<1> DEFINE v == HandleClick(t, n)
<1>3. Shaped(t.form)
  BY <1>1
<1>4. /\ v \in UI /\ SameTree(t, v)
      /\ v.load = IF n \in t.loaded THEN t.load
                  ELSE [t.load EXCEPT ![n] = @ \union {"form"}]
      /\ Shaped(v.form) /\ v.form.title = n
      /\ KeepsShown(t, v, n)
  BY <1>1, <1>3, ClickFacts
<1> HIDE DEF v
<1> QED
  BY <1>1, <1>2, <1>4 DEF SameTree, v, KeepsShown

\* A form goes on agreeing with what was loaded.
StillShown(u, v, n) == \A w :
  /\ Shown(u.form, w)
  /\ \A f \in ToSet(Leaves[n]) : u.known[f] = w[f]
  => Shown(v.form, w)

LEMMA RunSentFacts ==
  ASSUME NEW u \in UI, NEW n \in u.loaded, Shaped(u.form), u.form.title = n
  PROVE  LET v == RunSent(u, n)
         IN  /\ v \in UI /\ v.known = u.known /\ v.loaded = u.loaded
             /\ v.rootload = u.rootload /\ v.handlers = u.handlers
             /\ v.sel = u.sel /\ v.offer = TRUE /\ v.load = u.load
             /\ Shaped(v.form) /\ v.form.title = n
             /\ StillShown(u, v, n)
<1> DEFINE t == [u EXCEPT !.conf[n] = "set"]
           c == HandleClick(t, n)
<1>1. n \in Node
  BY DEF UI
<1>2. /\ t \in UI /\ t.sel = u.sel /\ t.known = u.known /\ t.loaded = u.loaded
      /\ t.rootload = u.rootload /\ t.handlers = u.handlers /\ t.form = u.form
      /\ t.load = u.load
  BY <1>1 DEF UI
<1>3. RunSent(u, n) = [[c EXCEPT !.conf[n] = "set"] EXCEPT !.avail = TRUE, !.offer = TRUE]
  BY <1>1 DEF RunSent, Propagate
<1> HIDE DEF t
<1>4. /\ c \in UI /\ SameTree(t, c) /\ c.load = t.load
      /\ Shaped(c.form) /\ c.form.title = n
      /\ \A w : /\ Shown(u.form, w)
                /\ \A f \in ToSet(Leaves[n]) : u.known[f] = w[f]
                => Shown(c.form, w)
  <2>1. Shaped(t.form) /\ n \in t.loaded
    BY <1>2
  <2>2. /\ c \in UI /\ SameTree(t, c)
        /\ c.load = IF n \in t.loaded THEN t.load
                    ELSE [t.load EXCEPT ![n] = @ \union {"form"}]
        /\ Shaped(c.form) /\ c.form.title = n
        /\ KeepsShown(t, c, n)
    BY <1>1, <1>2, <2>1, ClickFacts
  <2> HIDE DEF c
  <2> QED
    BY <1>2, <2>1, <2>2 DEF KeepsShown
<1> HIDE DEF c
<1> DEFINE d == [c EXCEPT !.conf[n] = "set"]
<1>6. /\ d \in UI /\ d.known = c.known /\ d.loaded = c.loaded
      /\ d.rootload = c.rootload /\ d.handlers = c.handlers
      /\ d.sel = c.sel /\ d.load = c.load /\ d.form = c.form
  BY <1>1, <1>4 DEF UI
<1> HIDE DEF d
<1> DEFINE v == RunSent(u, n)
<1>5. /\ v \in UI /\ v.known = c.known /\ v.loaded = c.loaded
      /\ v.rootload = c.rootload /\ v.handlers = c.handlers
      /\ v.sel = c.sel /\ v.offer = TRUE /\ v.load = c.load /\ v.form = c.form
  <2>1. v = [d EXCEPT !.avail = TRUE, !.offer = TRUE]
    BY <1>3 DEF d
  <2> HIDE DEF v
  <2> QED
    BY <1>6, <2>1 DEF UI
<1> HIDE DEF v
<1> QED
  BY <1>2, <1>4, <1>5 DEF SameTree, StillShown, v

LEMMA RunDeletedFacts ==
  ASSUME NEW u \in UI, NEW n \in Node, Shaped(u.form), u.loaded = {}
  PROVE  LET v == RunDeleted(u, n)
         IN  /\ v \in UI /\ v.known = u.known /\ v.loaded = {}
             /\ v.rootload = u.rootload /\ v.handlers = u.handlers
             /\ v.sel = n /\ v.offer = u.offer
             /\ v.load = [u.load EXCEPT ![n] = @ \union {"form"}]
             /\ Shaped(v.form) /\ v.form.title = n /\ \A w : Shown(v.form, w)
<1> DEFINE t == HandleClick(u, Root)
           v == Select(t, n)
<1>1. t = Titled(u, Root, Button(u, Root))
  BY DEF HandleClick, Titled
<1>2. Button(u, Root) \in {"Create", "Delete"} /\ Root \in Node \union {Root}
  BY ButtonFacts
<1> HIDE DEF t
<1>3. /\ t \in UI /\ SameTree(u, t) /\ t.load = u.load
      /\ Shaped(t.form) /\ t.form.title = Root
  BY <1>1, <1>2, TitledFacts
<1>4. t.form.title # n /\ n \notin t.loaded
  BY <1>3, Disjoint DEF SameTree
<1>5. RunDeleted(u, n) = v
  BY DEF RunDeleted, t
<1>6. /\ v \in UI /\ v.known = t.known /\ v.loaded = t.loaded
      /\ v.rootload = t.rootload /\ v.handlers = t.handlers
      /\ v.sel = n /\ v.offer = t.offer
      /\ v.load = [t.load EXCEPT ![n] = @ \union {"form"}]
      /\ Shaped(v.form) /\ v.form.title = n
      /\ \A w : Shown(v.form, w)
  BY <1>3, <1>4, SelectFacts DEF KeepsShown
<1> HIDE DEF v
<1> QED
  BY <1>3, <1>5, <1>6 DEF SameTree

LEMMA LoadFacts ==
  ASSUME NEW n \in Node, NEW x \in {"form", "plain", "select"}
  PROVE  /\ [NoLoad EXCEPT ![n] = @ \union {x}] = Only(n, {x})
         /\ Only(n, {x}) \in [Node -> SUBSET {"form", "plain", "select"}]
         /\ [Only(n, {"plain"}) EXCEPT ![n] = @ \union {"select"}]
              = Only(n, {"plain", "select"})
         /\ \A S : [Only(n, S) EXCEPT ![n] = {}] = NoLoad
         /\ \A S : Only(n, S)[n] = S
         /\ \A S : \A m \in Node : Only(n, S)[m] # {} => m = n
         /\ NoLoad[n] = {} /\ NoLoad \in [Node -> SUBSET {"form", "plain", "select"}]
<1>1. NoLoad[n] = {} /\ [NoLoad EXCEPT ![n] = @ \union {x}] = [NoLoad EXCEPT ![n] = {x}]
  BY DEF NoLoad
<1>2. \A S : Only(n, S) = [m \in Node |-> IF m = n THEN S ELSE {}]
  BY DEF Only, NoLoad
<1>3. \A S, T : [Only(n, S) EXCEPT ![n] = T] = Only(n, T)
  BY <1>2
<1>4. Only(n, {}) = NoLoad
  BY <1>2 DEF NoLoad
<1>5. \A S : Only(n, S)[n] = S
  BY <1>2
<1>6. [Only(n, {"plain"}) EXCEPT ![n] = @ \union {"select"}]
        = [Only(n, {"plain"}) EXCEPT ![n] = {"plain", "select"}]
  <2>1. Only(n, {"plain"})[n] \union {"select"} = {"plain", "select"}
    BY <1>5
  <2> QED
    BY <1>2, <2>1
<1>7. \A S : \A m \in Node : Only(n, S)[m] # {} => m = n
  BY <1>2
<1>8. Only(n, {x}) \in [Node -> SUBSET {"form", "plain", "select"}]
  BY <1>2
<1> QED
  BY <1>1, <1>3, <1>4, <1>5, <1>6, <1>7, <1>8 DEF Only, NoLoad

----------------------------------------------------------------------------
(* Sending a form *)

Before(u, w) ==
  /\ u \in UI /\ w \in FieldValues /\ Shaped(u.form) /\ Rest(u) /\ Sending(u, w, None)

\* v is u once f, at the place j, went out.
AsSent(u, v, j, f) ==
  /\ v \in UI /\ SameTree(u, v) /\ v.load = u.load
  /\ v.next = j + 1 /\ v.num = u.num + 1 /\ v.sent = u.sent \union {f} /\ v.errs = u.errs
  /\ v.form.title = u.form.title /\ v.form.button = u.form.button
  /\ v.form.items = u.form.items /\ v.form.val = u.form.val
  /\ v.form.base = u.form.base /\ v.form.pressed = u.form.pressed
  /\ v.form.flag = u.form.flag
  /\ v.form.again = u.form.again \union ({f} \intersect List)
  /\ v.form.twice = u.form.twice \union ({f} \intersect u.form.again)
  /\ \A g \in Field : v.form.orig[g] = IF g = f /\ f \in Text THEN u.form.val[g]
                                       ELSE u.form.orig[g]

LEMMA SentFacts ==
  ASSUME NEW u \in UI, NEW f \in Field, NEW j \in Nat
  PROVE  AsSent(u, Sent(u, j, f), j, f)
<1> DEFINE v == Sent(u, j, f)
           form == u.form
           value == IF f \in Text THEN form.val[f] ELSE form.orig[f]
           orig == [form.orig EXCEPT ![f] = value]
           again == form.again \union ({f} \intersect List)
           twice == form.twice \union ({f} \intersect form.again)
<1>1. /\ form \in Form /\ form.orig \in FieldValues /\ form.val \in FieldValues
  BY DEF UI, Form
<1>2. /\ orig \in FieldValues
      /\ \A g \in Field : orig[g] = IF g = f /\ f \in Text THEN form.val[g] ELSE form.orig[g]
  BY <1>1 DEF FieldValues
<1>3. v = [u EXCEPT !.next = j + 1, !.num = @ + 1, !.sent = @ \union {f},
                    !.form = [form EXCEPT !.orig = orig, !.again = again, !.twice = twice]]
  BY <1>1 DEF Sent, UI, Form
<1> DEFINE new == [form EXCEPT !.orig = orig, !.again = again, !.twice = twice]
<1>4. again \in SUBSET Field /\ twice \in SUBSET Field
  BY <1>1 DEF Form
<1> HIDE DEF v, orig, again, twice
<1>5. /\ new \in Form /\ new.orig = orig /\ new.again = again /\ new.twice = twice
      /\ new.title = form.title /\ new.button = form.button /\ new.items = form.items
      /\ new.val = form.val /\ new.base = form.base /\ new.pressed = form.pressed
      /\ new.flag = form.flag
  BY <1>1, <1>2, <1>4 DEF Form
<1> HIDE DEF new
<1>6. v = [u EXCEPT !.next = j + 1, !.num = @ + 1, !.sent = @ \union {f}, !.form = new]
  BY <1>3 DEF new
<1>7. /\ v \in UI /\ SameTree(u, v) /\ v.load = u.load
      /\ v.next = j + 1 /\ v.num = u.num + 1 /\ v.sent = u.sent \union {f}
      /\ v.errs = u.errs /\ v.form = new
  <2>1. u.next \in Nat /\ u.num \in Nat /\ u.num + 1 \in Nat /\ j + 1 \in Nat
        /\ u.sent \union {f} \in SUBSET Field
    BY DEF UI
  <2>2. v \in UI
    BY <1>5, <1>6, <2>1 DEF UI
  <2>3. SameTree(u, v) /\ v.load = u.load /\ v.errs = u.errs
    BY <1>6 DEF UI, SameTree
  <2>4. v.next = j + 1 /\ v.num = u.num + 1 /\ v.sent = u.sent \union {f} /\ v.form = new
    BY <1>6 DEF UI
  <2> QED
    BY <2>2, <2>3, <2>4
<1> QED
  BY <1>2, <1>5, <1>7 DEF v, again, twice, AsSent

\* What is answered as the next field goes out
LEMMA SentProgress ==
  ASSUME NEW u, NEW w, Before(u, w), NEW j \in u.next..(Len(u.form.items) - 1),
         IsChanged(u.form, u.form.items[j]),
         \A i \in u.next..(j - 1) : ~IsChanged(u.form, u.form.items[i]),
         NEW i \in 1..(Len(u.form.items) - 1)
  PROVE  Progress(Sent(u, j, u.form.items[j]), w, u.form.items[j], i)
<1> DEFINE f == u.form.items[j]
           g == u.form.items[i]
           v == Sent(u, j, f)
           form == u.form
           last == Len(form.items) - 1
<1>1. /\ Full(form) /\ Progress(u, w, None, i) /\ u.next \in Nat /\ u \in UI
      /\ form.again \subseteq form.pressed /\ Shaped(form)
  BY DEF Before, Sending, UI, Shaped
<1>2. /\ last \in Nat /\ f \in Field /\ g \in Field /\ j \in 1..last /\ j \in Nat
      /\ g = f => i = j
  <2>1. last \in Nat /\ Len(form.items) = last + 1 /\ u.next \in 1..(last + 1)
    BY <1>1, FullFacts DEF Before, Sending
  <2>2. j \in 1..last
    BY <2>1
  <2> QED
    BY <1>1, <2>1, <2>2, FullFacts
<1>3. g # None /\ f # None
  BY <1>2, Disjoint
<1>4. /\ v.next = j + 1 /\ v.sent = u.sent \union {f} /\ v.errs = u.errs
      /\ v.form.items = form.items /\ v.form.val = form.val
      /\ v.form.base = form.base /\ v.form.pressed = form.pressed
      /\ v.form.flag = form.flag
      /\ v.form.again = form.again \union ({f} \intersect List)
      /\ v.form.twice = form.twice \union ({f} \intersect form.again)
      /\ \A h \in Field : v.form.orig[h] = IF h = f /\ f \in Text THEN form.val[h]
                                           ELSE form.orig[h]
  <2> HIDE DEF f
  <2>1. u \in UI /\ f \in Field /\ j \in Nat
    BY <1>1, <1>2
  <2>2. AsSent(u, v, j, f)
    BY <2>1, SentFacts
  <2> HIDE DEF v
  <2> QED
    BY <2>2 DEF AsSent
<1>5. i \in Nat /\ u.next <= j
  BY <1>1, <1>2
<1>6. \A k \in u.next..(j - 1) : ~IsChanged(form, form.items[k])
  OBVIOUS
<1>7. /\ u.next <= i /\ i < j /\ g \notin List => form.val[g] = form.orig[g]
      /\ u.next <= i /\ i < j /\ g \in List => g \notin form.pressed
  <2>1. u.next <= i /\ i < j => i \in u.next..(j - 1)
    BY <1>1, <1>2, <1>5
  <2> QED
    BY <1>6, <2>1 DEF IsChanged
<1>8. ASSUME i = j PROVE Progress(v, w, f, i)
  <2>1. g = f /\ g \notin u.sent
    BY <1>1, <1>5, <1>8 DEF Progress
  <2> HIDE DEF v, f
  <2> QED
    BY <1>1, <1>2, <1>3, <1>4, <1>5, <1>8, <2>1 DEF Progress
<1>9. ASSUME i # j PROVE Progress(v, w, f, i)
  <2>1. g # f
    BY <1>2, <1>9
  <2>2. g \in v.sent <=> g \in u.sent
    BY <1>4, <2>1
  <2>3. v.form.orig[g] = form.orig[g] /\ (g \in v.form.again <=> g \in form.again)
        /\ (g \in v.form.twice <=> g \in form.twice)
    BY <1>2, <1>4, <2>1
  <2>4. g \notin u.sent /\ i < j + 1 =>
          /\ g \notin List => form.val[g] = form.orig[g]
          /\ g \in List => g \notin form.pressed
    BY <1>1, <1>2, <1>5, <1>7, <1>9 DEF Progress
  <2> HIDE DEF v, f
  <2> QED
    BY <1>1, <1>2, <1>3, <1>4, <1>5, <2>1, <2>2, <2>3, <2>4 DEF Progress
<1> QED
  BY <1>8, <1>9

AsIndicated(form, v, sent, errs) ==
  /\ v \in Form /\ v.title = form.title /\ v.button = form.button /\ v.items = form.items
  /\ v.val = form.val /\ v.base = form.base /\ v.pressed = form.pressed
  /\ v.again = form.again /\ v.twice = form.twice /\ v.edited = {}
  /\ v.flag = (form.flag \ sent) \union {form.items[i] : i \in errs \intersect DOMAIN form.items}
  /\ \A f \in Field : v.orig[f] = IF f \in sent /\ f \in Check THEN form.val[f]
                                  ELSE form.orig[f]

LEMMA IndicatedFacts ==
  ASSUME NEW form \in Form, NEW sent, NEW errs
  PROVE  AsIndicated(form, Indicated(form, sent, errs), sent, errs)
<1> DEFINE orig == [f \in Field |-> IF f \in sent \intersect Check THEN form.val[f]
                                    ELSE form.orig[f]]
           places == errs \intersect DOMAIN form.items
           wrong == {form.items[i] : i \in places}
           flag == (form.flag \ sent) \union wrong
           v == Indicated(form, sent, errs)
<1>1. /\ orig \in FieldValues
      /\ \A f \in Field : orig[f] = IF f \in sent /\ f \in Check THEN form.val[f]
                                    ELSE form.orig[f]
  BY DEF Form, FieldValues
<1>2. flag \in SUBSET (Field \union {Submit})
  <2>1. form.items \in Seq(Field \union {Submit}) /\ form.flag \subseteq Field \union {Submit}
    BY DEF Form
  <2>2. \A i \in DOMAIN form.items : form.items[i] \in Field \union {Submit}
    BY <2>1
  <2> QED
    BY <2>1, <2>2
<1>3. v = [form EXCEPT !.orig = orig, !.flag = flag, !.edited = {}]
  BY DEF Indicated, Form
<1> HIDE DEF v, orig, flag
<1> QED
  BY <1>1, <1>2, <1>3 DEF AsIndicated, Form, v, flag

\* Nothing is left to send, and all that was sent is answered.
Through(u, w) ==
  /\ Before(u, w)
  /\ \A i \in u.next..(Len(u.form.items) - 1) : ~IsChanged(u.form, u.form.items[i])

LEMMA ThroughFacts ==
  ASSUME NEW u, NEW w, Through(u, w), NEW i \in 1..(Len(u.form.items) - 1)
  PROVE  LET f == u.form.items[i]
             form == u.form
         IN  /\ f \in Field
             /\ f \notin List /\ f \notin u.sent =>
                  form.val[f] = form.orig[f] /\ (f \notin form.flag => form.orig[f] = w[f])
             /\ f \in u.sent /\ f \in Text => form.orig[f] = form.val[f]
             /\ f \in u.sent /\ f \notin form.twice /\ i \notin u.errs => w[f] = form.val[f]
             /\ f \in List =>
                  /\ f \notin form.pressed => form.val[f] = form.base[f]
                  /\ f \notin form.again => form.base[f] = w[f]
                  /\ f \notin u.sent => form.val[f] = form.base[f] /\ form.base[f] = w[f]
<1> DEFINE f == u.form.items[i]
           form == u.form
           last == Len(form.items) - 1
<1>1. /\ Full(form) /\ Progress(u, w, None, i) /\ u.next \in Nat /\ u \in UI
      /\ form.again \subseteq form.pressed
  BY DEF Through, Before, Sending, UI, Shaped
<1>2. /\ last \in Nat /\ f \in Field /\ i \in 1..last
  BY <1>1, FullFacts
<1>3. f # None
  BY <1>2, Disjoint
<1>4. i \in u.next..last => ~IsChanged(form, f)
  BY DEF Through
<1>5. i < u.next \/ /\ f \in List => f \notin form.pressed
                    /\ f \notin List => form.val[f] = form.orig[f]
  BY <1>1, <1>2, <1>4 DEF IsChanged
<1> HIDE DEF f, form, last
<1> QED
  BY <1>1, <1>2, <1>3, <1>5 DEF Progress, f, form

LEMMA DoneShown ==
  ASSUME NEW u, NEW w, Through(u, w), NEW form,
         \/ AsIndicated(u.form, form, u.sent, u.errs)
         \/ u.sent = {} /\ form = [u.form EXCEPT !.edited = {}]
  PROVE  Shown(form, w)
<1>1. /\ Full(u.form) /\ u.form \in Form
  BY DEF Through, Before, Sending, UI
<1>2. form.items = u.form.items /\ DOMAIN u.form.items = 1..Len(u.form.items)
      /\ Len(u.form.items) \in Nat
  BY <1>1, FullFacts DEF AsIndicated, Form
<1>3. SUFFICES ASSUME NEW i \in 1..(Len(u.form.items) - 1)
               PROVE  LET f == form.items[i]
                      IN  /\ f \notin List =>
                               /\ f \notin form.flag => form.orig[f] = w[f]
                               /\ f \notin form.edited => form.val[f] = form.orig[f]
                          /\ f \in List =>
                               /\ f \notin form.pressed => form.val[f] = form.base[f]
                               /\ f \notin form.again => form.base[f] = w[f]
                               /\ f \notin form.twice \union form.flag \union form.edited
                                    => form.val[f] = w[f]
  BY <1>2 DEF Shown
<1> DEFINE f == u.form.items[i]
           old == u.form
<1>4. /\ f \in Field
      /\ f \notin List /\ f \notin u.sent =>
           old.val[f] = old.orig[f] /\ (f \notin old.flag => old.orig[f] = w[f])
      /\ f \in u.sent /\ f \in Text => old.orig[f] = old.val[f]
      /\ f \in u.sent /\ f \notin old.twice /\ i \notin u.errs => w[f] = old.val[f]
      /\ f \in List =>
           /\ f \notin old.pressed => old.val[f] = old.base[f]
           /\ f \notin old.again => old.base[f] = w[f]
           /\ f \notin u.sent => old.val[f] = old.base[f] /\ old.base[f] = w[f]
  BY ThroughFacts
<1>5. CASE AsIndicated(u.form, form, u.sent, u.errs)
  <2>1. i \in u.errs => f \in form.flag
    BY <1>2, <1>5 DEF AsIndicated
  <2>2. f \notin form.flag /\ f \notin u.sent => f \notin old.flag
    BY <1>5 DEF AsIndicated
  <2>3. f \in u.sent /\ f \notin List => f \notin old.twice
    BY <1>1 DEF Through, Before, Shaped
  <2> HIDE DEF f, old
  <2>4. form.items[i] = f /\ form.edited = {} /\ form.val = old.val /\ form.base = old.base
        /\ form.pressed = old.pressed /\ form.again = old.again /\ form.twice = old.twice
        /\ form.orig[f] = IF f \in u.sent /\ f \in Check THEN old.val[f] ELSE old.orig[f]
    BY <1>2, <1>4, <1>5 DEF AsIndicated, f, old
  <2> QED
    BY <1>4, <2>1, <2>2, <2>3, <2>4, Disjoint
<1>6. CASE u.sent = {} /\ form = [u.form EXCEPT !.edited = {}]
  <2> HIDE DEF f
  <2> QED
    BY <1>1, <1>2, <1>4, <1>6 DEF Form, f
<1> QED
  BY <1>5, <1>6

LEMMA FinishedFacts ==
  ASSUME NEW u, NEW w, Through(u, w)
  PROVE  LET v == Finished(u)
         IN  /\ v \in UI /\ Shaped(v.form) /\ Resetting(v, u.sel) /\ Shown(v.form, w)
             /\ v.known = u.known /\ v.loaded = u.loaded \ {u.sel} /\ v.sel = u.sel
<1> DEFINE n == u.sel
           form == Indicated(u.form, u.sent, u.errs)
           h == [do |-> "sent", of |-> n]
           t == [u EXCEPT !.form = form, !.avail = TRUE, !.handlers = Append(@, h)]
           v == Finished(u)
<1>1. /\ u \in UI /\ u.form \in Form /\ n = u.form.title /\ n \in Node
      /\ u.rootload = FALSE /\ u.load = NoLoad /\ u.handlers = <<>> /\ Shaped(u.form)
  BY FullFacts DEF Through, Before, Sending, UI, Rest
<1>2. AsIndicated(u.form, form, u.sent, u.errs)
  BY <1>1, IndicatedFacts
<1> HIDE DEF form
<1>3. Shown(form, w)
  BY <1>2, DoneShown
<1>4. form \in Form /\ form.title = n /\ Shaped(form)
  BY <1>1, <1>2 DEF AsIndicated, Shaped, Full
<1>5. h \in Handler
  BY <1>1 DEF Handler, Place
<1> HIDE DEF h
<1>6. Append(u.handlers, h) = <<h>> /\ <<h>> \in Seq(Handler)
  BY <1>1, <1>5
<1>7. /\ t \in UI /\ t.form = form /\ t.handlers = <<h>> /\ t.rootload = u.rootload
      /\ t.load = u.load /\ t.sel = n /\ t.known = u.known /\ t.loaded = u.loaded
  BY <1>1, <1>4, <1>6 DEF UI
<1>8. v = Reload(t, n)
  BY DEF Finished, t, form, h
<1> HIDE DEF t, v
<1>9. n # Root /\ n \notin ToSet(Leaves[n])
  BY <1>1, LeafFacts, Disjoint
<1>10. v = [t EXCEPT !.loaded = @ \ {n}, !.load = [t.load EXCEPT ![n] = @ \union {"plain"}],
                     !.sel = n]
  BY <1>7, <1>8, <1>9 DEF Reload, UI
<1>11. [t.load EXCEPT ![n] = @ \union {"plain"}] = Only(n, {"plain"})
       /\ Only(n, {"plain"}) \in [Node -> SUBSET {"form", "plain", "select"}]
  BY <1>1, <1>7, LoadFacts
<1> HIDE DEF n
<1>12. /\ v \in UI /\ v.form = form /\ v.handlers = <<h>> /\ v.rootload = FALSE
       /\ v.load = Only(n, {"plain"}) /\ v.sel = n /\ v.known = t.known
       /\ v.loaded = t.loaded \ {n}
  BY <1>1, <1>7, <1>10, <1>11 DEF UI, Place
<1> QED
  BY <1>3, <1>4, <1>7, <1>12 DEF Resetting, h, v, n

LEMMA RequestFacts ==
  ASSUME NEW u \in UI, NEW f \in Field, u.sel \in Node
  PROVE  /\ FieldRequest(u, f) \in Request
         /\ FieldRequest(u, f).op = "field" /\ FieldRequest(u, f).of = f
         /\ FieldRequest(u, f).path = u.sel /\ FieldRequest(u, f) # None
         /\ f \in List => /\ FieldRequest(u, f).add = u.form.val[f] \ u.form.base[f]
                          /\ FieldRequest(u, f).del = u.form.base[f] \ u.form.val[f]
         /\ f \notin List => /\ FieldRequest(u, f).add = u.form.val[f]
                             /\ FieldRequest(u, f).del = Choice[f] \ u.form.val[f]
<1> DEFINE add == IF f \in List THEN GridAdds(u.form, f) ELSE u.form.val[f]
           del == IF f \in List THEN GridDeletes(u.form, f) ELSE Choice[f] \ u.form.val[f]
<1>1. /\ u.form.val[f] \subseteq Value /\ u.form.base[f] \subseteq Value
      /\ Choice[f] \subseteq Value
  BY EditorOK DEF UI, Form, FieldValues, Value
<1>2. add \in SUBSET Value /\ del \in SUBSET Value
  BY <1>1 DEF GridAdds, GridDeletes
<1>3. FieldRequest(u, f) = [op |-> "field", of |-> f, path |-> u.sel, add |-> add, del |-> del]
  BY DEF FieldRequest
<1>4. /\ f \in List => add = u.form.val[f] \ u.form.base[f]
                       /\ del = u.form.base[f] \ u.form.val[f]
      /\ f \notin List => add = u.form.val[f] /\ del = Choice[f] \ u.form.val[f]
  BY DEF GridAdds, GridDeletes
<1> HIDE DEF add, del
<1>5. FieldRequest(u, f) \in Request
  BY <1>2, <1>3 DEF Request
<1> QED
  BY <1>3, <1>4, <1>5, Disjoint

\* A field went out: what the request is, and what it leaves.
GoesOut(u, w, v, r) ==
  /\ v \in UI /\ SameTree(u, v) /\ Rest(v) /\ Shaped(v.form) /\ v.form.title = u.form.title
  /\ r \in Request /\ r.op = "field" /\ r.of \in Field /\ r = FieldRequest(v, r.of)
  /\ Sending(v, w, r.of) /\ v.num # 0 /\ v.next > 1
  /\ v.form.items[v.next - 1] = r.of /\ r.of \in v.sent

LEMMA GoesOutFacts ==
  ASSUME NEW u, NEW w, Before(u, w), NEW j \in u.next..(Len(u.form.items) - 1),
         IsChanged(u.form, u.form.items[j]),
         \A i \in u.next..(j - 1) : ~IsChanged(u.form, u.form.items[i])
  PROVE  GoesOut(u, w, Sent(u, j, u.form.items[j]), FieldRequest(u, u.form.items[j]))
<1> DEFINE f == u.form.items[j]
           v == Sent(u, j, f)
           r == FieldRequest(u, f)
           form == u.form
<1>1. /\ u \in UI /\ Full(form) /\ u.sel = form.title /\ form.title \in Node
      /\ u.next \in 1..Len(form.items) /\ Shaped(form) /\ Rest(u)
  BY FullFacts DEF Before, Sending
<1>2. Len(form.items) \in Nat /\ j \in 1..(Len(form.items) - 1) /\ j \in Nat
      /\ j + 1 \in 1..Len(form.items)
  BY <1>1, FullFacts
<1>3. f \in Field
  BY <1>1, <1>2, FullFacts
<1>4. \A i \in 1..(Len(form.items) - 1) : Progress(v, w, f, i)
  BY SentProgress
<1> HIDE DEF f, form
<1>5. AsSent(u, v, j, f)
  BY <1>1, <1>2, <1>3, SentFacts
<1> HIDE DEF v
<1>6. /\ v \in UI /\ v.form.items = form.items /\ v.form.title = form.title
      /\ v.form.val = form.val /\ v.form.base = form.base /\ v.next = j + 1
      /\ v.num = u.num + 1 /\ v.sel = u.sel /\ f \in v.sent /\ u.num \in Nat
      /\ SameTree(u, v) /\ v.load = u.load
  BY <1>1, <1>5 DEF AsSent, form, SameTree, UI
<1>7. /\ r \in Request /\ r.op = "field" /\ r.of = f
  BY <1>1, <1>3, RequestFacts DEF form
<1>8. r = FieldRequest(v, f)
  BY <1>6 DEF FieldRequest, GridAdds, GridDeletes, form
<1> HIDE DEF r
<1>9. Full(v.form)
  BY <1>1, <1>6 DEF Full
<1>10. Shaped(v.form)
  <2>1. IsChanged(form, f)
    BY DEF f, form
  <2>2. f \in List => f \in form.pressed
    BY <2>1 DEF IsChanged
  <2> QED
    BY <1>1, <1>5, <1>6, <1>9, <2>2, FullFacts DEF Shaped, AsSent, form
<1>11. Rest(v)
  BY <1>1, <1>6 DEF Rest, SameTree
<1>12. v.num # 0 /\ v.next > 1 /\ v.next - 1 = j
  BY <1>2, <1>6
<1>13. Sending(v, w, f)
  BY <1>1, <1>2, <1>4, <1>6, <1>9, <1>12 DEF Sending
<1>14. v.form.items[v.next - 1] = f
  BY <1>6, <1>12 DEF f, form
<1> QED
  BY <1>3, <1>6, <1>7, <1>8, <1>10, <1>11, <1>12, <1>13, <1>14 DEF GoesOut, r, v, f, form

LEMMA SendFacts ==
  ASSUME NEW u, NEW w, Before(u, w), NEW b, Send(u, b)
  PROVE  \/ /\ GoesOut(u, w, ui', req') /\ box' = IF u.num = 0 THEN "wait" ELSE b
         \/ /\ u.num = 0 /\ req' = None /\ box' = b
            /\ ui' \in UI /\ SameTree(u, ui') /\ Rest(ui') /\ Shaped(ui'.form)
            /\ ui'.form.title = u.form.title /\ Shown(ui'.form, w)
         \/ /\ req' = None /\ box' \in {"none", "alert"}
            /\ ui' \in UI /\ Shaped(ui'.form) /\ Resetting(ui', u.sel)
            /\ Shown(ui'.form, w) /\ ui'.known = u.known
            /\ ui'.loaded = u.loaded \ {u.sel}
<1> DEFINE j == NextPlace(u.form, u.next)
           f == u.form.items[j]
           last == Len(u.form.items)
<1>1. /\ u \in UI /\ Full(u.form) /\ u.sel = u.form.title /\ u.sel \in Node
      /\ u.next \in 1..last /\ Shaped(u.form) /\ Rest(u)
      /\ u.num = 0 => u.sent = {}
  BY FullFacts DEF Before, Sending
<1>2. /\ j \in u.next..last /\ (j = last \/ IsChanged(u.form, f))
      /\ \A i \in u.next..(j - 1) : ~IsChanged(u.form, u.form.items[i])
  BY <1>1, NextPlaceIs
<1>3. last \in Nat /\ u.form.items[last] = Submit
      /\ \A i \in 1..(last - 1) : u.form.items[i] # Submit
  BY <1>1, FullFacts
<1>4. j # 0 /\ (f = Submit <=> j = last)
  <2> HIDE DEF j
  <2> QED
    BY <1>1, <1>2, <1>3
<1>5. CASE f # Submit
  <2>1. j \in u.next..(last - 1) /\ IsChanged(u.form, f)
    <3> HIDE DEF j
    <3> QED
      BY <1>1, <1>2, <1>3, <1>4, <1>5
  <2>2. GoesOut(u, w, Sent(u, j, f), FieldRequest(u, f))
    <3> HIDE DEF j
    <3> QED
      BY <1>2, <2>1, GoesOutFacts
  <2>3. ui' = Sent(u, j, f) /\ req' = FieldRequest(u, f)
        /\ box' = IF u.num = 0 THEN "wait" ELSE b
    BY <1>1, <1>4, <1>5 DEF Send
  <2> QED
    BY <2>2, <2>3
<1>6. CASE f = Submit
  <2>1. Through(u, w)
    <3> HIDE DEF j
    <3> QED
      BY <1>2, <1>4, <1>6 DEF Through
  <2>2. CASE u.num = 0
    <3>1. ui' = [u EXCEPT !.form.edited = {}] /\ req' = None /\ box' = b
      BY <1>1, <1>4, <1>6, <2>2 DEF Send
    <3> DEFINE form == [u.form EXCEPT !.edited = {}]
    <3>2. u.form \in Form /\ ui' = [u EXCEPT !.form = form]
      BY <1>1, <3>1 DEF UI, Form
    <3>3. /\ form \in Form /\ form.title = u.form.title /\ form.items = u.form.items
          /\ form.button = u.form.button /\ form.pressed = u.form.pressed
          /\ form.again = u.form.again /\ form.twice = u.form.twice
      BY <3>2 DEF Form
    <3>4. Shown(form, w)
      BY <1>1, <2>1, <2>2, DoneShown
    <3> HIDE DEF form
    <3>5. Shaped(form)
      BY <1>1, <3>3 DEF Shaped, Full
    <3>6. /\ ui' \in UI /\ ui'.form = form /\ SameTree(u, ui') /\ ui'.load = u.load
      BY <1>1, <3>2, <3>3 DEF UI, SameTree
    <3>7. Rest(ui')
      BY <1>1, <3>6 DEF Rest, SameTree
    <3> QED
      BY <2>2, <3>1, <3>3, <3>4, <3>5, <3>6, <3>7
  <2>3. CASE u.num # 0
    <3>1. ui' = Finished(u) /\ req' = None /\ box' \in {"none", "alert"}
      BY <1>1, <1>4, <1>6, <2>3 DEF Send
    <3> QED
      BY <2>1, <3>1, FinishedFacts
  <2> QED
    BY <2>2, <2>3
<1> QED
  BY <1>5, <1>6

----------------------------------------------------------------------------
(* An answer to a field *)

Awaiting(u, w, f) ==
  /\ u \in UI /\ f \in Field /\ Sending(u, w, f) /\ u.num # 0 /\ u.next > 1
  /\ u.form.items[u.next - 1] = f /\ f \in u.sent

Answering(u, v) ==
  /\ v.form = u.form /\ v.sel = u.sel /\ v.next = u.next /\ v.num = u.num
  /\ v.sent = u.sent /\ u.errs \subseteq v.errs

LEMMA AnsweredSending ==
  ASSUME NEW u, NEW w, NEW f, Awaiting(u, w, f), NEW v, Answering(u, v),
         NEW x, \A g \in Field \ {f} : x[g] = w[g],
         x[f] = u.form.val[f] \/ f \in u.form.twice \/ u.next - 1 \in v.errs
  PROVE  Sending(v, x, None)
<1> DEFINE form == u.form
           last == Len(form.items) - 1
<1>1. Full(form) /\ u.next \in Nat /\ u.next \in 1..Len(form.items)
  BY DEF Awaiting, Sending, UI
<1>4. /\ v.form = u.form /\ v.sel = u.sel /\ v.next = u.next /\ v.num = u.num
      /\ v.sent = u.sent /\ u.errs \subseteq v.errs
  BY DEF Answering
<1>5. /\ f \in Field /\ u.form.items[u.next - 1] = f /\ f \in u.sent /\ u.next > 1
      /\ Sending(u, w, f)
  BY DEF Awaiting
<1>2. last \in Nat /\ u.next - 1 \in 1..last
  BY <1>1, <1>5, FullFacts
<1>3. ASSUME NEW i \in 1..last PROVE Progress(v, x, None, i)
  <2> DEFINE g == form.items[i]
  <2>1. g \in Field /\ (g = f => i = u.next - 1)
    BY <1>1, <1>2, <1>5, FullFacts
  <2>2. Progress(u, w, f, i)
    BY <1>5 DEF Sending
  <2>3. g # None
    BY <2>1, Disjoint
  <2>4. CASE g = f
    <3>1. i \in Nat /\ i < u.next
      BY <1>1, <2>1, <2>4
    <3> HIDE DEF g
    <3> QED
      BY <1>4, <1>5, <2>1, <2>2, <2>3, <2>4, <3>1 DEF Progress, g
  <2>5. CASE g # f
    <3>1. x[g] = w[g]
      BY <1>5, <2>1, <2>5
    <3> HIDE DEF g
    <3> QED
      BY <1>4, <1>5, <2>1, <2>2, <2>3, <2>5, <3>1 DEF Progress, g
  <2> QED
    BY <2>4, <2>5
<1> QED
  BY <1>1, <1>3, <1>4, <1>5 DEF Sending

LEMMA ApplyFacts ==
  ASSUME work \in Config, req.of \in Field, NEW add, NEW del,
         add \subseteq Choice[req.of], Apply(add, del)
  PROVE  /\ work' \in Config
         /\ work'.val[req.of] = (work.val[req.of] \ del) \union add
         /\ \A g \in Field \ {req.of} : work'.val[g] = work.val[g]
<1> DEFINE f == req.of
           new == (work.val[f] \ del) \union add
           nodes == work.nodes \union IF add = {} THEN {} ELSE {Owner(f)}
           val == [work.val EXCEPT ![f] = new]
<1>1. /\ work.nodes \in SUBSET Node /\ work.val \in FieldValues
      /\ \A g \in Field : work.val[g] # {} => Owner(g) \in work.nodes
  BY DEF Config
<1>2. /\ work.val \in [Field -> SUBSET Value] /\ work.val[f] \subseteq Choice[f]
      /\ Choice[f] \subseteq Value /\ Owner(f) \in Node
  BY <1>1, OwnerFacts DEF FieldValues, Value
<1>3. work' = [nodes |-> nodes, val |-> val]
  BY DEF Apply
<1>4. new \subseteq Choice[f] /\ new \subseteq Value
  BY <1>2
<1>5. new # {} => Owner(f) \in nodes
  BY <1>1
<1>6. nodes \in SUBSET Node /\ work.nodes \subseteq nodes
  BY <1>1, <1>2
<1> HIDE DEF new, nodes
<1>7. /\ val \in [Field -> SUBSET Value] /\ val[f] = new
      /\ \A g \in Field \ {f} : val[g] = work.val[g]
  BY <1>2, <1>4
<1> HIDE DEF val
<1>8. val \in FieldValues
  BY <1>1, <1>4, <1>7 DEF FieldValues
<1>9. \A g \in Field : val[g] # {} => Owner(g) \in nodes
  BY <1>1, <1>5, <1>6, <1>7
<1>10. work' \in Config
  BY <1>3, <1>6, <1>8, <1>9 DEF Config
<1> QED
  BY <1>3, <1>7, <1>10 DEF new

LEMMA PendingFacts ==
  ASSUME Held, Pending
  PROVE  /\ ui \in UI /\ work \in Config /\ work.val \in FieldValues /\ Rest(ui)
         /\ Shaped(ui.form) /\ box = "wait" /\ req.of \in Field
         /\ Sending(ui, work.val, req.of) /\ ui.num # 0 /\ ui.next > 1
         /\ ui.form.items[ui.next - 1] = req.of /\ req.of \in ui.sent
         /\ req = FieldRequest(ui, req.of) /\ ui.form.title \in Node
         /\ ui.sel = ui.form.title /\ Owner(req.of) = ui.sel /\ req.path = ui.sel
         /\ req.add \subseteq Choice[req.of] /\ ui.next \in Nat
<1>1. /\ ui \in UI /\ work \in Config /\ Rest(ui) /\ Shaped(ui.form) /\ box = "wait"
      /\ Sending(ui, work.val, req.of) /\ ui.num # 0 /\ ui.next > 1
      /\ ui.form.items[ui.next - 1] = req.of /\ req.of \in ui.sent
      /\ req = FieldRequest(ui, req.of)
  BY DEF Held, Types, Waiting, Pending
<1>2. Full(ui.form) /\ ui.sel = ui.form.title /\ ui.next \in 1..Len(ui.form.items)
  BY <1>1 DEF Sending
<1>3. ui.next - 1 \in 1..(Len(ui.form.items) - 1) /\ ui.next \in Nat
  BY <1>1, <1>2, FullFacts
<1>4. /\ req.of \in Field /\ ui.form.title \in Node
      /\ req.of = Leaves[ui.form.title][ui.next - 1]
      /\ ui.next - 1 \in 1..Len(Leaves[ui.form.title])
  BY <1>1, <1>2, <1>3, FullFacts, LeafFacts
<1>5. Owner(req.of) = ui.sel
  BY <1>2, <1>4, LeafFacts
<1>6. ui.form.val[req.of] \subseteq Choice[req.of]
  BY <1>1, <1>4 DEF UI, Form, FieldValues
<1> DEFINE f == req.of
<1> HIDE DEF f
<1>7. req = FieldRequest(ui, f) /\ f \in Field /\ ui.sel \in Node
  BY <1>1, <1>2, <1>4 DEF f
<1>8. req.path = ui.sel /\ req.add \subseteq ui.form.val[f]
  BY <1>1, <1>7, RequestFacts
<1>9. work.val \in FieldValues
  BY <1>1 DEF Config
<1> QED
  BY <1>1, <1>2, <1>3, <1>4, <1>5, <1>6, <1>8, <1>9 DEF f

LEMMA HeldAfterSend ==
  ASSUME NEW u, Before(u, work'.val), work' \in Config, active' \in Config,
         asked' \in Node \union {None}, NEW b, Send(u, b),
         (b = "none" /\ u.num = 0) \/ (b = "wait" /\ u.num # 0),
         \A n \in u.loaded : n # u.sel \/ u.num = 0 =>
           \A f \in ToSet(Leaves[n]) : u.known[f] = work'.val[f],
         u.num = 0 /\ work' # active' => u.offer
  PROVE  Held'
<1>1. Full(u.form) /\ u.sel = u.form.title /\ u.sel \in Node /\ u.loaded \subseteq Node
  BY FullFacts DEF Before, Sending, UI
<1>2. CASE GoesOut(u, work'.val, ui', req') /\ box' = "wait"
  <2>1. /\ ui' \in UI /\ SameTree(u, ui') /\ Rest(ui') /\ Shaped(ui'.form)
        /\ ui'.form.title = u.form.title
        /\ req' \in Request /\ req'.op = "field" /\ req' = FieldRequest(ui', req'.of)
        /\ Sending(ui', work'.val, req'.of) /\ ui'.num # 0 /\ ui'.next > 1
        /\ ui'.form.items[ui'.next - 1] = req'.of /\ req'.of \in ui'.sent
    BY <1>2 DEF GoesOut
  <2>2. req' # None
    BY <2>1, Disjoint
  <2>3. Pending' /\ Waiting'
    BY <2>1, <2>2 DEF Pending, Waiting
  <2>4. ui'.sel = u.sel /\ ui'.known = u.known /\ ui'.loaded = u.loaded
    BY <2>1 DEF SameTree
  <2>5. \A n \in ui'.loaded : ~(Pending' /\ n = ui'.sel) =>
          \A f \in ToSet(Leaves[n]) : ui'.known[f] = work'.val[f]
    BY <2>3, <2>4
  <2>6. Types' /\ Phase(ui')
    BY <1>2, <2>1 DEF Types, Phase
  <2> QED
    BY <1>1, <1>2, <2>1, <2>2, <2>3, <2>4, <2>5, <2>6 DEF Held
<1>3. CASE /\ u.num = 0 /\ req' = None /\ box' = "none"
           /\ ui' \in UI /\ SameTree(u, ui') /\ Rest(ui') /\ Shaped(ui'.form)
           /\ ui'.form.title = u.form.title /\ Shown(ui'.form, work'.val)
  <2>1. ~Pending'
    BY <1>3 DEF Pending
  <2>2. ui'.sel = u.sel /\ ui'.known = u.known /\ ui'.loaded = u.loaded /\ ui'.offer = u.offer
    BY <1>3 DEF SameTree
  <2>3. Types' /\ Phase(ui')
    BY <1>3 DEF Types, Phase
  <2> QED
    BY <1>1, <1>3, <2>1, <2>2, <2>3 DEF Held
<1>4. CASE /\ req' = None /\ box' \in {"none", "alert"}
           /\ ui' \in UI /\ Shaped(ui'.form) /\ Resetting(ui', u.sel)
           /\ Shown(ui'.form, work'.val) /\ ui'.known = u.known
           /\ ui'.loaded = u.loaded \ {u.sel}
  <2>1. ~Pending' /\ ui'.sel = u.sel /\ ui'.form.title = u.sel
    BY <1>4 DEF Pending, Resetting
  <2>2. Types' /\ Phase(ui')
    BY <1>1, <1>4 DEF Types, Phase
  <2>3. \A n \in ui'.loaded : \A f \in ToSet(Leaves[n]) : ui'.known[f] = work'.val[f]
    BY <1>4
  <2> QED
    BY <1>1, <1>4, <2>1, <2>2, <2>3 DEF Held
<1> QED
  BY <1>2, <1>3, <1>4, SendFacts

LEMMA HeldFieldOk ==
  ASSUME Held, FieldOk PROVE Held'
<1> DEFINE f == req.of
<1>1. Pending /\ Apply(req.add, req.del) /\ Send(ui, box) /\ UNCHANGED <<asked, active>>
  BY DEF FieldOk, Pending
<1>2. /\ ui \in UI /\ work \in Config /\ work.val \in FieldValues /\ Rest(ui)
      /\ Shaped(ui.form) /\ box = "wait" /\ f \in Field
      /\ Sending(ui, work.val, f) /\ ui.num # 0 /\ ui.next > 1
      /\ ui.form.items[ui.next - 1] = f /\ f \in ui.sent
      /\ req = FieldRequest(ui, f) /\ ui.form.title \in Node
      /\ ui.sel = ui.form.title /\ Owner(f) = ui.sel
      /\ req.add \subseteq Choice[f]
  BY <1>1, PendingFacts
<1>3. /\ work' \in Config /\ work'.val[f] = (work.val[f] \ req.del) \union req.add
      /\ \A g \in Field \ {f} : work'.val[g] = work.val[g]
  BY <1>1, <1>2, ApplyFacts
<1>4. work'.val[f] = ui.form.val[f] \/ f \in ui.form.twice
  <2> HIDE DEF f
  <2>1. work.val[f] \subseteq Choice[f] /\ ui.form.val[f] \subseteq Choice[f]
    BY <1>2 DEF UI, Form, FieldValues
  <2>2. CASE f \notin List
    <3>1. req.add = ui.form.val[f] /\ req.del = Choice[f] \ ui.form.val[f]
      BY <1>2, <2>2, RequestFacts
    <3> QED
      BY <1>3, <2>1, <3>1
  <2>3. CASE f \in List
    <3>1. req.add = ui.form.val[f] \ ui.form.base[f]
          /\ req.del = ui.form.base[f] \ ui.form.val[f]
      BY <1>2, <2>3, RequestFacts
    <3>2. f \notin ui.form.twice => ui.form.base[f] = work.val[f]
      <4>1. Full(ui.form) /\ ui.next \in Nat /\ ui.next \in 1..Len(ui.form.items)
        BY <1>2 DEF Sending, UI
      <4>2. ui.next - 1 \in 1..(Len(ui.form.items) - 1)
        BY <1>2, <4>1, FullFacts
      <4>3. Progress(ui, work.val, f, ui.next - 1)
        BY <1>2, <4>2 DEF Sending
      <4> QED
        BY <1>2, <2>3, <4>3 DEF Progress
    <3> QED
      BY <1>3, <3>1, <3>2
  <2> QED
    BY <2>2, <2>3
<1>5. Sending(ui, work'.val, None)
  <2> HIDE DEF f
  <2>1. Awaiting(ui, work.val, f) /\ Answering(ui, ui)
    BY <1>2 DEF Awaiting, Answering
  <2> DEFINE x == work'.val
  <2>2. /\ \A g \in Field \ {f} : x[g] = work.val[g]
        /\ x[f] = ui.form.val[f] \/ f \in ui.form.twice \/ ui.next - 1 \in ui.errs
    BY <1>3, <1>4
  <2> HIDE DEF x
  <2>3. Sending(ui, x, None)
    BY <2>1, <2>2, AnsweredSending
  <2> QED
    BY <2>3 DEF x
<1>6. Before(ui, work'.val)
  BY <1>2, <1>3, <1>5 DEF Before, Config
<1>7. \A n \in ui.loaded : n # ui.sel \/ ui.num = 0 =>
        \A g \in ToSet(Leaves[n]) : ui.known[g] = work'.val[g]
  <2>1. SUFFICES ASSUME NEW n \in ui.loaded, n # ui.sel, NEW g \in ToSet(Leaves[n])
                 PROVE  ui.known[g] = work'.val[g]
    BY <1>2
  <2>2. n \in Node
    BY <1>2 DEF UI
  <2>3. ui.known[g] = work.val[g]
    BY <2>1 DEF Held
  <2>4. g \in Field /\ Owner(g) = n
    BY <2>2, LeafFacts
  <2> QED
    BY <1>2, <1>3, <2>1, <2>3, <2>4
<1>8. active' \in Config /\ asked' \in Node \union {None}
  BY <1>1 DEF Held, Types
<1> QED
  BY <1>1, <1>2, <1>3, <1>6, <1>7, <1>8, HeldAfterSend

LEMMA HeldFieldRefused ==
  ASSUME Held, FieldRefused PROVE Held'
<1> DEFINE f == req.of
           u == ErrorPlace(ui)
<1>1. Pending /\ Send(u, box) /\ UNCHANGED <<asked, active>>
  BY DEF FieldRefused, Pending
<1>2. /\ ui \in UI /\ work \in Config /\ work.val \in FieldValues /\ Rest(ui)
      /\ Shaped(ui.form) /\ box = "wait" /\ f \in Field
      /\ Sending(ui, work.val, f) /\ ui.num # 0 /\ ui.next > 1 /\ ui.next \in Nat
      /\ ui.form.items[ui.next - 1] = f /\ f \in ui.sent
      /\ ui.form.title \in Node /\ ui.sel = ui.form.title /\ Owner(f) = ui.sel
      /\ req.add \subseteq Choice[f]
  BY <1>1, PendingFacts
<1>3. /\ u \in UI /\ SameTree(ui, u) /\ u.load = ui.load /\ u.form = ui.form
      /\ u.next = ui.next /\ u.num = ui.num /\ u.sent = ui.sent
      /\ u.errs = ui.errs \union {ui.next - 1}
  <2>1. ui.next - 1 \in Nat
    BY <1>2
  <2>2. u = [ui EXCEPT !.errs = @ \union {ui.next - 1}]
    BY DEF ErrorPlace
  <2> HIDE DEF u
  <2> DEFINE place == ui.next - 1
  <2> HIDE DEF place
  <2>3. u = [ui EXCEPT !.errs = @ \union {place}] /\ place \in Nat
    BY <2>1, <2>2 DEF place
  <2>4. u \in UI /\ u.errs = ui.errs \union {place}
    BY <1>2, <2>3 DEF UI
  <2>5. /\ SameTree(ui, u) /\ u.load = ui.load /\ u.form = ui.form
        /\ u.next = ui.next /\ u.num = ui.num /\ u.sent = ui.sent
    BY <1>2, <2>3 DEF UI, SameTree
  <2> QED
    BY <2>4, <2>5 DEF place
<1> HIDE DEF u
<1>4. work' \in Config /\ \A g \in Field \ {f} : work'.val[g] = work.val[g]
  <2>1. CASE UNCHANGED work
    BY <1>2, <2>1
  <2>2. CASE \E a \in SUBSET req.add, d \in SUBSET req.del : Apply(a, d)
    <3>1. PICK a \in SUBSET req.add, d \in SUBSET req.del : Apply(a, d)
      BY <2>2
    <3>2. a \subseteq Choice[req.of]
      BY <1>2, <3>1
    <3> QED
      BY <1>2, <3>1, <3>2, ApplyFacts
  <2> QED
    BY <2>1, <2>2 DEF FieldRefused
<1>5. Sending(u, work'.val, None)
  <2> HIDE DEF f
  <2>1. Awaiting(ui, work.val, f) /\ Answering(ui, u)
    BY <1>2, <1>3 DEF Awaiting, Answering, SameTree
  <2> DEFINE x == work'.val
  <2>2. /\ \A g \in Field \ {f} : x[g] = work.val[g]
        /\ x[f] = ui.form.val[f] \/ f \in ui.form.twice \/ ui.next - 1 \in u.errs
    BY <1>3, <1>4
  <2> HIDE DEF x
  <2>3. Sending(u, x, None)
    BY <2>1, <2>2, AnsweredSending
  <2> QED
    BY <2>3 DEF x
<1>6. Before(u, work'.val)
  BY <1>2, <1>3, <1>4, <1>5 DEF Before, Config, Rest, SameTree
<1>7. \A n \in u.loaded : n # u.sel \/ u.num = 0 =>
        \A g \in ToSet(Leaves[n]) : u.known[g] = work'.val[g]
  <2>0. u.loaded = ui.loaded /\ u.sel = ui.sel /\ u.known = ui.known
    BY <1>3 DEF SameTree
  <2>1. SUFFICES ASSUME NEW n \in ui.loaded, n # ui.sel, NEW g \in ToSet(Leaves[n])
                 PROVE  ui.known[g] = work'.val[g]
    BY <1>2, <1>3, <2>0
  <2>2. n \in Node
    BY <1>2 DEF UI
  <2>3. ui.known[g] = work.val[g]
    BY <2>1 DEF Held
  <2>4. g \in Field /\ Owner(g) = n
    BY <2>2, LeafFacts
  <2> QED
    BY <1>2, <1>4, <2>1, <2>3, <2>4
<1>8. active' \in Config /\ asked' \in Node \union {None}
  BY <1>1 DEF Held, Types
<1> QED
  BY <1>1, <1>2, <1>3, <1>4, <1>6, <1>7, <1>8, HeldAfterSend

\* What holds when the user may act: nothing is in flight.
LEMMA IdleFacts ==
  ASSUME Held, req = None
  PROVE  /\ ~Pending /\ ui \in UI /\ Shaped(ui.form) /\ work \in Config /\ active \in Config
         /\ asked \in Node \union {None} /\ Phase(ui) /\ box # "wait"
         /\ ~ui.rootload => Shown(ui.form, work.val)
         /\ \A n \in ui.loaded : \A f \in ToSet(Leaves[n]) : ui.known[f] = work.val[f]
         /\ Rest(ui) /\ box # "question" /\ ui.form.title \in Node => ui.sel = ui.form.title
         /\ Rest(ui) /\ work # active => ui.offer
<1>1. ~Pending
  BY DEF Pending
<1>2. Rest(ui) => ~ui.rootload /\ \A n \in Node : ~Resetting(ui, n)
  BY DEF Rest, Resetting
<1> QED
  BY <1>1, <1>2 DEF Held, Types

LEMMA NotLoading ==
  ASSUME Held, ~Loading PROVE Rest(ui)
<1>1. ~ui.rootload /\ \A n \in Node : ui.load[n] = {}
  BY DEF Loading
<1>2. \A n \in Node : Only(n, {"form"})[n] # {} /\ Only(n, {"plain"})[n] # {}
                      /\ Only(n, {"select"})[n] # {} /\ Only(n, {"plain", "select"})[n] # {}
  <2>1. \A S : \A n \in Node : Only(n, S)[n] = S
    BY LoadFacts
  <2> QED
    BY <2>1
<1>3. \A n \in Node : ~Opening(ui, n) /\ ~Resetting(ui, n) /\ ~Selecting(ui, n)
  BY <1>1, <1>2 DEF Opening, Resetting, Selecting
<1> QED
  BY <1>1, <1>3 DEF Held, Phase, Growing

LEMMA HeldSet ==
  ASSUME Held, odd = 0, odd' = 0, NEW enter \in BOOLEAN, Set(enter) PROVE Held'
<1> DEFINE u == [ui EXCEPT !.next = 1, !.num = 0, !.errs = {}, !.sent = {}, !.dirty = enter]
<1>1. /\ box = "none" /\ req = None /\ ui.form.items # <<>> /\ Send(u, box)
      /\ UNCHANGED <<asked, work, active>> /\ (Loading => odd' = odd + 1)
  BY DEF Set, Odd
<1>2. Rest(ui)
  BY <1>1, NotLoading
<1>3. /\ ui \in UI /\ Shaped(ui.form) /\ work \in Config /\ active \in Config
      /\ asked \in Node \union {None} /\ Full(ui.form) /\ ui.form.title \in Node
      /\ ui.sel = ui.form.title /\ Shown(ui.form, work.val)
      /\ \A n \in ui.loaded : \A f \in ToSet(Leaves[n]) : ui.known[f] = work.val[f]
      /\ work # active => ui.offer
  BY <1>1, <1>2, IdleFacts DEF Shaped, Full, Rest
<1>4. /\ u \in UI /\ u.next = 1 /\ u.num = 0 /\ u.errs = {} /\ u.sent = {}
      /\ u.form = ui.form /\ u.sel = ui.sel /\ u.load = ui.load
      /\ u.rootload = ui.rootload /\ u.handlers = ui.handlers
      /\ u.loaded = ui.loaded /\ u.known = ui.known /\ u.offer = ui.offer
  BY <1>3 DEF UI
<1> HIDE DEF u
<1>5. /\ Len(ui.form.items) \in Nat /\ DOMAIN ui.form.items = 1..Len(ui.form.items)
      /\ 1 \in 1..Len(ui.form.items)
      /\ \A i \in 1..(Len(ui.form.items) - 1) : ui.form.items[i] \in Field
  BY <1>3, FullFacts, LeafFacts
<1>6. ASSUME NEW i \in 1..(Len(ui.form.items) - 1)
      PROVE  Progress(u, work.val, None, i)
  <2> DEFINE f == ui.form.items[i]
  <2>1. /\ f \in Field /\ f # None /\ i \in Nat /\ ~(i < 1)
        /\ i \in DOMAIN ui.form.items \ {Len(ui.form.items)}
    BY <1>5, Disjoint
  <2>2. /\ f \notin List => (f \notin ui.form.flag => ui.form.orig[f] = work.val[f])
        /\ f \in List =>
             /\ f \notin ui.form.pressed => ui.form.val[f] = ui.form.base[f]
             /\ f \notin ui.form.again => ui.form.base[f] = work.val[f]
    BY <1>3, <2>1 DEF Shown
  <2> HIDE DEF f
  <2> QED
    BY <1>4, <2>1, <2>2 DEF Progress, f
<1>7. Sending(u, work.val, None)
  BY <1>3, <1>4, <1>5, <1>6 DEF Sending
<1>8. Before(u, work'.val)
  BY <1>1, <1>2, <1>3, <1>4, <1>7 DEF Before, Config, Rest
<1>9. (box = "none" /\ u.num = 0) \/ (box = "wait" /\ u.num # 0)
  BY <1>1, <1>4
<1>15. Send(u, box)
  BY <1>1
<1>10. work' \in Config /\ active' \in Config /\ asked' \in Node \union {None}
  BY <1>1, <1>3
<1>11. \A n \in u.loaded : \A f \in ToSet(Leaves[n]) : u.known[f] = work'.val[f]
  BY <1>1, <1>3, <1>4
<1>12. u.num = 0 /\ (work' # active' => u.offer)
  BY <1>1, <1>3, <1>4
<1>13. \A n \in u.loaded : n # u.sel \/ u.num = 0 =>
         \A f \in ToSet(Leaves[n]) : u.known[f] = work'.val[f]
  BY <1>11
<1>14. u.num = 0 /\ work' # active' => u.offer
  BY <1>12
<1> QED
  BY <1>8, <1>9, <1>10, <1>13, <1>14, <1>15, HeldAfterSend

----------------------------------------------------------------------------
(* The user *)

\* A step after which nothing is in flight
Settled(u, b, a) ==
  /\ u \in UI /\ Shaped(u.form) /\ Phase(u) /\ b \in {"none", "question", "alert"}
  /\ a \in Node \union {None}
  /\ b = "question" => Rest(u) /\ a \in Node /\ u.sel = a
  /\ Rest(u) /\ u.form.title \in Node => u.sel = u.form.title \/ b = "question"

Agrees(u, w) ==
  /\ ~u.rootload => Shown(u.form, w)
  /\ \A n \in u.loaded : \A f \in ToSet(Leaves[n]) : u.known[f] = w[f]

Offers(u) == u.offer \/ u.rootload \/ \E n \in Node : Resetting(u, n)

LEMMA RestFacts ==
  ASSUME NEW u, Rest(u) PROVE \A n \in Node : ~Resetting(u, n)
  BY DEF Rest, Resetting

LEMMA HeldIdle ==
  ASSUME Settled(ui', box', asked'), Agrees(ui', work'.val), work' \in Config,
         active' \in Config, req' = None, work' # active' => Offers(ui')
  PROVE  Held'
<1>1. ~Pending'
  BY DEF Pending
<1>2. Types' /\ box' # "wait"
  BY DEF Types, Settled
<1> QED
  BY <1>1, <1>2 DEF Held, Settled, Agrees, Offers

LEMMA IdleHeld ==
  ASSUME Held, req = None
  PROVE  /\ Settled(ui, box, asked) /\ Agrees(ui, work.val) /\ work \in Config
         /\ active \in Config /\ (work # active => Offers(ui))
<1>1. ~Pending /\ box # "wait"
  BY DEF Pending, Held
<1> QED
  BY <1>1 DEF Held, Types, Settled, Agrees, Offers

LEMMA OpenPhase ==
  ASSUME NEW u, NEW n \in Node, ~u.rootload, u.handlers = <<>>, u.form.title = n, u.sel = n,
         u.load = NoLoad \/ u.load = [NoLoad EXCEPT ![n] = @ \union {"form"}]
  PROVE  Phase(u)
<1>1. [NoLoad EXCEPT ![n] = @ \union {"form"}] = Only(n, {"form"})
  BY LoadFacts
<1> QED
  BY <1>1 DEF Phase, Rest, Opening

LEMMA HeldNodeClick ==
  ASSUME Held, odd = 0, odd' = 0, NEW n \in Node, NodeClick(n) PROVE Held'
<1>1. /\ box = "none" /\ req = None /\ (Loading => odd' = odd + 1)
      /\ UNCHANGED <<req, work, active>>
      /\ IF ui.dirty THEN ui' = [ui EXCEPT !.sel = n] /\ box' = "question" /\ asked' = n
         ELSE ui' = Select(ui, n) /\ UNCHANGED <<box, asked>>
  BY DEF NodeClick, Odd
<1>2. Rest(ui)
  BY <1>1, NotLoading
<1>3. /\ Settled(ui, box, asked) /\ Agrees(ui, work.val) /\ work \in Config
      /\ active \in Config /\ (work # active => Offers(ui))
  BY <1>1, IdleHeld
<1>4. /\ ui \in UI /\ Shaped(ui.form) /\ asked \in Node \union {None}
      /\ ~ui.rootload /\ ui.load = NoLoad /\ ui.handlers = <<>>
      /\ Shown(ui.form, work.val)
      /\ \A m \in ui.loaded : \A f \in ToSet(Leaves[m]) : ui.known[f] = work.val[f]
  BY <1>2, <1>3 DEF Settled, Agrees, Rest
<1>5. work # active => ui.offer
  BY <1>2, <1>3, RestFacts DEF Offers, Rest
<1>6. CASE ui.dirty
  <2>1. /\ ui' \in UI /\ ui'.form = ui.form /\ ui'.sel = n /\ ui'.rootload = ui.rootload
        /\ ui'.load = ui.load /\ ui'.handlers = ui.handlers /\ ui'.loaded = ui.loaded
        /\ ui'.known = ui.known /\ ui'.offer = ui.offer
    BY <1>1, <1>4, <1>6 DEF UI, Place
  <2>2. Rest(ui') /\ Phase(ui')
    BY <1>4, <2>1 DEF Rest, Phase
  <2>3. Settled(ui', box', asked')
    BY <1>1, <1>4, <1>6, <2>1, <2>2 DEF Settled
  <2>4. Agrees(ui', work'.val) /\ (work' # active' => Offers(ui'))
    BY <1>1, <1>4, <1>5, <2>1 DEF Agrees, Offers
  <2> QED
    BY <1>1, <1>3, <2>3, <2>4, HeldIdle
<1>7. CASE ~ui.dirty
  <2>1. ui' = Select(ui, n) /\ UNCHANGED <<box, asked>>
    BY <1>1, <1>7
  <2>2. /\ ui' \in UI /\ ui'.known = ui.known /\ ui'.loaded = ui.loaded
        /\ ui'.rootload = ui.rootload /\ ui'.handlers = ui.handlers
        /\ ui'.sel = n /\ ui'.offer = ui.offer
        /\ ui'.load = IF n \in ui.loaded THEN ui.load
                      ELSE [ui.load EXCEPT ![n] = @ \union {"form"}]
        /\ Shaped(ui'.form) /\ ui'.form.title = n
    BY <1>4, <2>1, SelectFacts
  <2>3. Shown(ui'.form, work.val)
    <3>1. KeepsShown(ui, ui', n)
      BY <1>4, <2>1, SelectFacts
    <3> QED
      BY <1>4, <3>1 DEF KeepsShown
  <2>4. Phase(ui')
    BY <1>4, <2>2, OpenPhase
  <2>5. Settled(ui', box', asked')
    BY <1>1, <1>4, <2>1, <2>2, <2>4 DEF Settled
  <2>6. Agrees(ui', work'.val) /\ (work' # active' => Offers(ui'))
    BY <1>1, <1>4, <1>5, <2>2, <2>3 DEF Agrees, Offers
  <2> QED
    BY <1>1, <1>3, <2>5, <2>6, HeldIdle
<1> QED
  BY <1>6, <1>7

LEMMA HeldQuestion ==
  ASSUME Held, odd = 0, odd' = 0, NEW yes \in BOOLEAN, Question(yes) PROVE Held'
<1> DEFINE n == asked
           u == HandleClick(ui, n)
<1>1. /\ box = "question" /\ box' = "none" /\ asked' = None /\ yes
      /\ ui' = [u EXCEPT !.dirty = FALSE] /\ UNCHANGED <<req, work, active>>
  BY DEF Question, Odd
<1>2. req = None
  BY <1>1 DEF Held
<1>3. /\ Settled(ui, box, asked) /\ Agrees(ui, work.val) /\ work \in Config
      /\ active \in Config /\ (work # active => Offers(ui))
  BY <1>2, IdleHeld
<1>4. /\ ui \in UI /\ Shaped(ui.form) /\ n \in Node /\ ui.sel = n /\ Rest(ui)
      /\ ~ui.rootload /\ ui.load = NoLoad /\ ui.handlers = <<>>
      /\ Shown(ui.form, work.val)
      /\ \A m \in ui.loaded : \A f \in ToSet(Leaves[m]) : ui.known[f] = work.val[f]
  BY <1>1, <1>3 DEF Settled, Agrees, Rest
<1>5. work # active => ui.offer
  BY <1>3, <1>4, RestFacts DEF Offers
<1> HIDE DEF n
<1>6. /\ u \in UI /\ SameTree(ui, u)
      /\ u.load = IF n \in ui.loaded THEN ui.load
                  ELSE [ui.load EXCEPT ![n] = @ \union {"form"}]
      /\ Shaped(u.form) /\ u.form.title = n
  BY <1>4, ClickFacts
<1>7. Shown(u.form, work.val)
  <2>1. KeepsShown(ui, u, n)
    BY <1>4, ClickFacts
  <2> HIDE DEF u
  <2> QED
    BY <1>4, <2>1 DEF KeepsShown
<1> HIDE DEF u
<1>8. /\ ui' \in UI /\ ui'.form = u.form /\ ui'.sel = u.sel /\ ui'.rootload = u.rootload
      /\ ui'.load = u.load /\ ui'.handlers = u.handlers /\ ui'.loaded = u.loaded
      /\ ui'.known = u.known /\ ui'.offer = u.offer
  BY <1>1, <1>6 DEF UI
<1>9. /\ ui'.sel = n /\ ~ui'.rootload /\ ui'.handlers = <<>> /\ ui'.form.title = n
      /\ ui'.load = NoLoad \/ ui'.load = [NoLoad EXCEPT ![n] = @ \union {"form"}]
  BY <1>4, <1>6, <1>8 DEF SameTree
<1>10. Phase(ui')
  BY <1>4, <1>9, OpenPhase
<1>11. Settled(ui', box', asked')
  BY <1>1, <1>6, <1>8, <1>9, <1>10 DEF Settled
<1>12. Agrees(ui', work'.val) /\ (work' # active' => Offers(ui'))
  BY <1>1, <1>4, <1>5, <1>6, <1>7, <1>8 DEF Agrees, Offers, SameTree
<1> QED
  BY <1>1, <1>2, <1>3, <1>11, <1>12, HeldIdle

LEMMA HeldDismiss ==
  ASSUME Held, Dismiss PROVE Held'
<1>1. /\ box = "alert" /\ box' = "none" /\ UNCHANGED <<ui, asked, req, work, active>>
  BY DEF Dismiss
<1>2. req = None
  BY <1>1 DEF Held
<1>3. /\ Settled(ui, box, asked) /\ Agrees(ui, work.val) /\ work \in Config
      /\ active \in Config /\ (work # active => Offers(ui))
  BY <1>2, IdleHeld
<1>4. Settled(ui', box', asked')
  BY <1>1, <1>3 DEF Settled
<1> QED
  BY <1>1, <1>2, <1>3, <1>4, HeldIdle

\* A field of the form was edited.
AsEdited(form, v, f) ==
  /\ v \in Form /\ v.title = form.title /\ v.button = form.button /\ v.items = form.items
  /\ v.orig = form.orig /\ v.base = form.base /\ v.flag = form.flag
  /\ v.again = form.again /\ v.twice = form.twice /\ v.edited = form.edited \union {f}
  /\ v.pressed = form.pressed \union ({f} \intersect List)
  /\ \A g \in Field \ {f} : v.val[g] = form.val[g]

LEMMA EditedShown ==
  ASSUME NEW form \in Form, Full(form), NEW f \in Field, NEW v, AsEdited(form, v, f),
         NEW w, Shown(form, w)
  PROVE  Shown(v, w)
<1>1. /\ v.items = form.items /\ v.orig = form.orig /\ v.base = form.base
      /\ v.flag = form.flag /\ v.again = form.again /\ v.twice = form.twice
      /\ v.edited = form.edited \union {f}
      /\ v.pressed = form.pressed \union ({f} \intersect List)
      /\ \A g \in Field \ {f} : v.val[g] = form.val[g]
  BY DEF AsEdited
<1>2. SUFFICES ASSUME NEW i \in DOMAIN form.items \ {Len(form.items)}
               PROVE  LET g == form.items[i]
                      IN  /\ g \notin List => /\ g \notin v.flag => v.orig[g] = w[g]
                                              /\ g \notin v.edited => v.val[g] = v.orig[g]
                          /\ g \in List =>
                               /\ g \notin v.pressed => v.val[g] = v.base[g]
                               /\ g \notin v.again => v.base[g] = w[g]
                               /\ g \notin v.twice \union v.flag \union v.edited
                                    => v.val[g] = w[g]
  BY <1>1 DEF Shown
<1> DEFINE g == form.items[i]
<1>3. g \in Field
  BY <1>2, FullFacts
<1>4. /\ g \notin List => /\ g \notin form.flag => form.orig[g] = w[g]
                          /\ g \notin form.edited => form.val[g] = form.orig[g]
      /\ g \in List =>
           /\ g \notin form.pressed => form.val[g] = form.base[g]
           /\ g \notin form.again => form.base[g] = w[g]
           /\ g \notin form.twice \union form.flag \union form.edited
                => form.val[g] = w[g]
  BY <1>2 DEF Shown
<1> HIDE DEF g
<1> QED
  BY <1>1, <1>3, <1>4 DEF g

LEMMA HeldEdited ==
  ASSUME Held, NEW f \in Field, box = "none", req = None, Contains(ui.form.items, f),
         NEW form, AsEdited(ui.form, form, f), NEW dirty \in BOOLEAN,
         ui' = [ui EXCEPT !.form = form, !.dirty = dirty],
         UNCHANGED <<box, asked, req, work, active>>
  PROVE  Held'
<1>1. /\ Settled(ui, box, asked) /\ Agrees(ui, work.val) /\ work \in Config
      /\ active \in Config /\ (work # active => Offers(ui))
  BY IdleHeld
<1>2. /\ ui \in UI /\ Shaped(ui.form) /\ Phase(ui) /\ ui.form \in Form
  BY <1>1 DEF Settled, UI
<1>3. ui.form.items # <<>> /\ Full(ui.form)
  BY <1>2 DEF Shaped, Contains
<1>4. /\ form \in Form /\ form.title = ui.form.title /\ form.items = ui.form.items
      /\ form.button = ui.form.button /\ form.again = ui.form.again
      /\ form.twice = ui.form.twice
      /\ form.pressed = ui.form.pressed \union ({f} \intersect List)
  BY DEF AsEdited
<1>5. Shaped(form)
  BY <1>2, <1>3, <1>4 DEF Shaped, Full
<1>6. /\ ui' \in UI /\ ui'.form = form /\ ui'.sel = ui.sel /\ ui'.rootload = ui.rootload
      /\ ui'.load = ui.load /\ ui'.handlers = ui.handlers /\ ui'.loaded = ui.loaded
      /\ ui'.known = ui.known /\ ui'.offer = ui.offer
  BY <1>2, <1>4 DEF UI
<1>7. \A n : ~Selecting(ui, n)
  BY <1>3 DEF Selecting, NoForm
<1>8. /\ Rest(ui) <=> Rest(ui')
      /\ \A n : (Opening(ui, n) => Opening(ui', n)) /\ (Resetting(ui, n) <=> Resetting(ui', n))
      /\ Growing(ui) => Growing(ui')
  BY <1>4, <1>6 DEF Rest, Opening, Resetting, Growing
<1>9. Phase(ui')
  BY <1>2, <1>7, <1>8 DEF Phase
<1>10. Settled(ui', box', asked')
  BY <1>1, <1>4, <1>5, <1>6, <1>8, <1>9 DEF Settled
<1>11. ~ui.rootload => Shown(form, work.val)
  BY <1>1, <1>2, <1>3, EditedShown DEF Agrees
<1>12. Agrees(ui', work'.val)
  BY <1>1, <1>6, <1>11 DEF Agrees
<1>13. work' # active' => Offers(ui')
  BY <1>1, <1>6, <1>8 DEF Offers
<1> QED
  BY <1>1, <1>10, <1>12, <1>13, HeldIdle

LEMMA HeldEdits ==
  ASSUME Held, NEW f \in Field, EditText(f) \/ EditCheck(f) \/ PressGrid(f)
  PROVE  Held'
<1> DEFINE form == ui.form
<1>1. /\ box = "none" /\ req = None /\ Contains(form.items, f)
      /\ UNCHANGED <<box, asked, req, work, active>>
  BY DEF EditText, EditCheck, PressGrid, Editing
<1>2. ui \in UI /\ form \in Form /\ form.val \in FieldValues
  BY DEF Held, Types, UI, Form
<1>3. ASSUME NEW v \in SUBSET Choice[f], NEW pressed, NEW dirty \in BOOLEAN,
             pressed = form.pressed \union ({f} \intersect List),
             ui' = [ui EXCEPT !.form = [form EXCEPT !.val[f] = v, !.edited = @ \union {f},
                                                    !.pressed = pressed],
                              !.dirty = dirty]
      PROVE  Held'
  <2> DEFINE val == [form.val EXCEPT ![f] = v]
             new == [form EXCEPT !.val = val, !.edited = @ \union {f}, !.pressed = pressed]
  <2>1. v \subseteq Value
    BY DEF Value
  <2>2. val \in FieldValues /\ \A g \in Field \ {f} : val[g] = form.val[g]
    BY <1>2, <2>1 DEF FieldValues
  <2>3. new = [form EXCEPT !.val[f] = v, !.edited = @ \union {f}, !.pressed = pressed]
    OBVIOUS
  <2> HIDE DEF val
  <2>4. pressed \in SUBSET Field
    BY <1>2, <1>3, Disjoint DEF Form
  <2>5. AsEdited(form, new, f)
    BY <1>2, <1>3, <2>2, <2>4 DEF AsEdited, Form
  <2>6. ui' = [ui EXCEPT !.form = new, !.dirty = dirty]
    BY <1>3, <2>3
  <2> HIDE DEF new
  <2> QED
    BY <1>1, <2>5, <2>6, HeldEdited
<1>4. CASE EditText(f)
  <2>1. PICK v \in Values(f) :
          ui' = [ui EXCEPT !.form.val[f] = v, !.form.edited = @ \union {f}, !.dirty = TRUE]
    BY <1>4 DEF EditText
  <2>2. v \in SUBSET Choice[f]
    BY DEF Values
  <2>3. f \notin List
    BY <1>4, Disjoint DEF EditText
  <2>4. form.pressed = form.pressed \union ({f} \intersect List)
    BY <2>3
  <2>5. ui' = [ui EXCEPT !.form = [form EXCEPT !.val[f] = v, !.edited = @ \union {f},
                                               !.pressed = form.pressed],
                         !.dirty = TRUE]
    BY <1>2, <2>1 DEF UI, Form
  <2> QED
    BY <1>3, <2>2, <2>4, <2>5
<1>5. CASE EditCheck(f)
  <2> DEFINE v == Choice[f] \ form.val[f]
  <2>1. ui' = [ui EXCEPT !.form.val[f] = v, !.form.edited = @ \union {f}, !.dirty = TRUE]
    BY <1>2, <1>5 DEF EditCheck, UI, Form, FieldValues
  <2>2. v \in SUBSET Choice[f]
    OBVIOUS
  <2> HIDE DEF v
  <2>3. f \notin List
    BY <1>5, Disjoint DEF EditCheck
  <2>4. form.pressed = form.pressed \union ({f} \intersect List)
    BY <2>3
  <2>5. ui' = [ui EXCEPT !.form = [form EXCEPT !.val[f] = v, !.edited = @ \union {f},
                                               !.pressed = form.pressed],
                         !.dirty = TRUE]
    BY <1>2, <2>1 DEF UI, Form
  <2> QED
    BY <1>3, <2>2, <2>4, <2>5
<1>6. CASE PressGrid(f)
  <2>1. PICK p \in SUBSET Choice[f] :
          ui' = [ui EXCEPT !.form.val[f] = (@ \ p) \union (p \ @),
                           !.form.edited = @ \union {f}, !.form.pressed = @ \union {f}]
    BY <1>6 DEF PressGrid
  <2> DEFINE v == (form.val[f] \ p) \union (p \ form.val[f])
             pressed == form.pressed \union ({f} \intersect List)
             dirty == ui.dirty
  <2>2. v \in SUBSET Choice[f]
    BY <1>2 DEF FieldValues
  <2>3. f \in List /\ pressed = form.pressed \union {f}
    BY <1>6 DEF PressGrid
  <2>4. ui' = [ui EXCEPT !.form.val[f] = v, !.form.edited = @ \union {f},
                         !.form.pressed = @ \union {f}]
    BY <1>2, <2>1 DEF UI, Form, FieldValues
  <2>5. ui' = [ui EXCEPT !.form = [form EXCEPT !.val[f] = v, !.edited = @ \union {f},
                                               !.pressed = pressed],
                         !.dirty = dirty]
    <3> HIDE DEF v, pressed
    <3> QED
      BY <1>2, <2>3, <2>4 DEF UI, Form
  <2>6. dirty \in BOOLEAN
    BY <1>2 DEF UI
  <2> HIDE DEF v, dirty
  <2> QED
    BY <1>3, <2>2, <2>5, <2>6
<1> QED
  BY <1>4, <1>5, <1>6

----------------------------------------------------------------------------
(* The buttons *)

LEMMA HeldSendCommand ==
  ASSUME Held, odd = 0, odd' = 0, NEW c \in {"Create", "Delete", "commit", "discard", "view"},
         NEW n \in Node \union {None}, SendCommand(c, n),
         c \in {"Create", "Delete"} => n \in Node /\ n = ui.form.title
  PROVE  Held'
<1> DEFINE r == [op |-> c, of |-> n]
<1>1. /\ box = "none" /\ req = None /\ (Loading => odd' = odd + 1)
      /\ req' = r /\ box' = "wait" /\ UNCHANGED <<ui, asked, work, active>>
  BY DEF SendCommand, Odd
<1>2. Rest(ui) /\ ~Pending
  BY <1>1, NotLoading DEF Pending
<1>3. r \in Request /\ r.op = c /\ r.of = n
  BY DEF Request
<1> HIDE DEF r
<1>4. r # None /\ c # "field"
  BY <1>3, Disjoint
<1>5. ~Pending' /\ Waiting'
  BY <1>1, <1>2, <1>3, <1>4 DEF Pending, Waiting, Rest
<1>6. Types'
  BY <1>1, <1>3 DEF Held, Types
<1>7. /\ Shaped(ui.form) /\ Phase(ui)
      /\ ui.form.title \in Node => ui.sel = ui.form.title
      /\ ~ui.rootload => Shown(ui.form, work.val)
      /\ \A m \in ui.loaded : \A f \in ToSet(Leaves[m]) : ui.known[f] = work.val[f]
      /\ work # active => ui.offer \/ ui.rootload \/ \E m \in Node : Resetting(ui, m)
  BY <1>1, <1>2 DEF Held
<1> QED
  BY <1>1, <1>3, <1>4, <1>5, <1>6, <1>7 DEF Held

LEMMA HeldButtons ==
  ASSUME Held, odd = 0, odd' = 0,
         NodeButton \/ \E c \in {"commit", "discard", "view"} : Toolbar(c)
  PROVE  Held'
<1>1. CASE NodeButton
  <2>1. /\ ui.form.title \in Node /\ SendCommand(ui.form.button, ui.form.title)
        /\ ui.form.button \in {"Create", "Delete"}
    BY <1>1 DEF NodeButton, Held, Shaped, Types, UI, Form
  <2> QED
    BY <2>1, HeldSendCommand
<1>2. CASE \E c \in {"commit", "discard", "view"} : Toolbar(c)
  <2>1. PICK c \in {"commit", "discard", "view"} : SendCommand(c, None)
    BY <1>2 DEF Toolbar
  <2> QED
    BY <2>1, HeldSendCommand
<1> QED
  BY <1>1, <1>2

\* The server's answer to a button finds all at rest.
LEMMA CommandFacts ==
  ASSUME Held, req # None, req.op # "field"
  PROVE  /\ ui \in UI /\ Shaped(ui.form) /\ Rest(ui) /\ work \in Config /\ active \in Config
         /\ asked \in Node \union {None} /\ ui.load = NoLoad /\ ui.handlers = <<>>
         /\ ~ui.rootload
         /\ ui.form.title \in Node => ui.sel = ui.form.title
         /\ Shown(ui.form, work.val) /\ (work # active => ui.offer)
         /\ \A n \in ui.loaded : \A f \in ToSet(Leaves[n]) : ui.known[f] = work.val[f]
         /\ req.op \in {"Create", "Delete"} =>
              /\ req.of \in Node /\ req.of = ui.form.title /\ ui.sel = req.of
<1>1. ~Pending /\ Waiting /\ box # "question"
  BY DEF Held, Pending
<1>2. Rest(ui)
  BY <1>1 DEF Waiting
<1>3. \A n \in Node : ~Resetting(ui, n)
  BY <1>2, RestFacts
<1> QED
  BY <1>1, <1>2, <1>3 DEF Held, Types, Waiting, Rest

\* The tree is asked for again, from the root.
LEMMA ReloadRoot ==
  ASSUME NEW u \in UI, Shaped(u.form), u.load = NoLoad, u.handlers = <<>>,
         NEW h \in Handler, h.do # "sent", h.do = "deleted" => h.of \in Node,
         NEW v \in UI, v.form = u.form, v.load = u.load, v.rootload, v.loaded = {},
         v.handlers = <<h>>,
         NEW b \in {"none", "alert"}, NEW a \in Node \union {None}
  PROVE  Settled(v, b, a) /\ (\A w : Agrees(v, w)) /\ Offers(v)
<1>1. Phase(v) /\ ~Rest(v)
  BY DEF Phase, Growing, Rest
<1> QED
  BY <1>1 DEF Settled, Agrees, Offers

LEMMA ReloadedFacts ==
  ASSUME ui \in UI, Shaped(ui.form), ui.load = NoLoad, ui.handlers = <<>>,
         NEW b \in {"none", "alert"}, NEW a \in Node \union {None}
  PROVE  Settled(Reloaded, b, a) /\ (\A w : Agrees(Reloaded, w)) /\ Offers(Reloaded)
<1> DEFINE h == [do |-> "path", of |-> ui.sel]
           t == [ui EXCEPT !.handlers = Append(@, h)]
           v == Reloaded
<1>1. h \in Handler /\ h.do = "path"
  BY DEF Handler, UI
<1>2. v = Reload(t, Root)
  BY DEF Reloaded
<1> HIDE DEF h
<1>3. Append(ui.handlers, h) = <<h>> /\ <<h>> \in Seq(Handler)
  BY <1>1
<1>4. /\ t \in UI /\ t.form = ui.form /\ t.load = ui.load /\ t.handlers = <<h>>
  BY <1>3 DEF UI
<1> HIDE DEF t, v
<1> DEFINE sel == IF t.sel \in Node THEN None ELSE t.sel
<1>5. v = [t EXCEPT !.loaded = {}, !.rootload = TRUE, !.sel = sel]
  BY <1>2, <1>4 DEF Reload, UI
<1>6. sel \in Place
  BY <1>4 DEF UI, Place
<1> HIDE DEF sel
<1>7. /\ v \in UI /\ v.form = t.form /\ v.load = t.load /\ v.rootload /\ v.loaded = {}
      /\ v.handlers = t.handlers
  BY <1>4, <1>5, <1>6 DEF UI
<1> QED
  BY <1>1, <1>4, <1>7, ReloadRoot DEF v

LEMMA DeletedFacts ==
  ASSUME ui \in UI, Shaped(ui.form), ui.load = NoLoad, ui.handlers = <<>>,
         NEW n \in Node, ui.sel = n, NEW a \in Node \union {None}
  PROVE  Settled(Deleted(n), "none", a) /\ (\A w : Agrees(Deleted(n), w)) /\ Offers(Deleted(n))
<1> DEFINE h == [do |-> "deleted", of |-> ui.sel]
           t == Reload(ui, Root)
           v == Deleted(n)
<1>1. h \in Handler /\ h.do = "deleted" /\ h.of = n
  BY DEF Handler, Place
<1>2. t = [ui EXCEPT !.loaded = {}, !.rootload = TRUE, !.sel = None]
  BY DEF Reload, UI
<1>3. v = [t EXCEPT !.sel = Root, !.avail = TRUE, !.offer = TRUE, !.handlers = Append(@, h)]
  BY DEF Deleted
<1> HIDE DEF h, t, v
<1>4. /\ t \in UI /\ t.form = ui.form /\ t.load = ui.load /\ t.handlers = <<>>
      /\ t.rootload /\ t.loaded = {}
  BY <1>2 DEF UI, Place
<1>5. Append(t.handlers, h) = <<h>> /\ <<h>> \in Seq(Handler)
  BY <1>1, <1>4
<1>6. /\ v \in UI /\ v.form = t.form /\ v.load = t.load /\ v.rootload /\ v.loaded = {}
      /\ v.handlers = <<h>>
  BY <1>3, <1>4, <1>5 DEF UI, Place
<1> QED
  BY <1>1, <1>4, <1>6, ReloadRoot DEF v

LEMMA CreatedFacts ==
  ASSUME ui \in UI, ui.load = NoLoad, ui.handlers = <<>>, ~ui.rootload,
         NEW n \in Node, ui.sel = n, NEW a \in Node \union {None}
  PROVE  LET v == Created(n)
         IN  /\ Settled(v, "none", a) /\ v.offer = TRUE /\ v.loaded \subseteq ui.loaded
             /\ v.known = ui.known /\ v.form = NoForm
<1> DEFINE c == [ui EXCEPT !.conf[n] = "set"]
           t == [c EXCEPT !.avail = TRUE, !.offer = TRUE, !.form = NoForm]
           r == Reload(t, n)
           v == Created(n)
<1>1. /\ c \in UI /\ c.load = ui.load /\ c.handlers = ui.handlers /\ c.rootload = ui.rootload
      /\ c.sel = n /\ c.loaded = ui.loaded /\ c.known = ui.known
  BY DEF UI
<1> HIDE DEF c
<1>2. /\ t \in UI /\ t.load = NoLoad /\ t.handlers = <<>> /\ ~t.rootload /\ t.form = NoForm
      /\ t.sel = n /\ t.loaded = ui.loaded /\ t.known = ui.known /\ t.offer = TRUE
  BY <1>1, NoFormFacts DEF UI
<1>3. Propagate(ui, n) = c
  BY DEF Propagate, c
<1>16. [Propagate(ui, n) EXCEPT !.avail = TRUE, !.offer = TRUE, !.form = NoForm] = t
  BY <1>3
<1> HIDE DEF t
<1>4. v = IF n \in r.loaded THEN Select(r, n)
          ELSE [r EXCEPT !.load[n] = @ \union {"select"}]
  <2> DEFINE made(x) == LET y == IF x.sel \in Node THEN Reload(x, x.sel) ELSE x
                        IN  IF n \in y.loaded THEN Select(y, n)
                            ELSE [y EXCEPT !.load[n] = @ \union {"select"}]
  <2>1. v = made([Propagate(ui, n) EXCEPT !.avail = TRUE, !.offer = TRUE, !.form = NoForm])
    BY DEF Created
  <2>2. v = made(t)
    <3> HIDE DEF made
    <3> QED
      BY <2>1, <1>16
  <2> QED
    BY <2>2, <1>2
<1>5. n # Root /\ n \notin ToSet(Leaves[n])
  BY LeafFacts, Disjoint
<1>6. r = [t EXCEPT !.loaded = @ \ {n}, !.load = [t.load EXCEPT ![n] = @ \union {"plain"}],
                    !.sel = n]
  BY <1>2, <1>5 DEF Reload, UI
<1>7. /\ [t.load EXCEPT ![n] = @ \union {"plain"}] = Only(n, {"plain"})
      /\ Only(n, {"plain"}) \in [Node -> SUBSET {"form", "plain", "select"}]
  BY <1>2, LoadFacts
<1> HIDE DEF r, v
<1>8. /\ r \in UI /\ r.load = Only(n, {"plain"}) /\ r.handlers = <<>> /\ ~r.rootload
      /\ r.form = NoForm /\ r.sel = n /\ r.loaded = ui.loaded \ {n} /\ r.known = ui.known
      /\ r.offer = TRUE
  BY <1>2, <1>6, <1>7 DEF UI, Place
<1>9. v = [r EXCEPT !.load = [r.load EXCEPT ![n] = @ \union {"select"}]]
  BY <1>4, <1>8 DEF UI
<1>10. [r.load EXCEPT ![n] = @ \union {"select"}] = Only(n, {"plain", "select"})
  <2>1. [Only(n, {"plain"}) EXCEPT ![n] = @ \union {"select"}] = Only(n, {"plain", "select"})
    BY LoadFacts
  <2> QED
    BY <1>8, <2>1
<1>11. Only(n, {"plain", "select"}) \in [Node -> SUBSET {"form", "plain", "select"}]
  BY DEF Only, NoLoad
<1>12. /\ v \in UI /\ v.load = Only(n, {"plain", "select"}) /\ v.handlers = <<>>
       /\ ~v.rootload /\ v.form = NoForm /\ v.sel = n /\ v.loaded = ui.loaded \ {n}
       /\ v.known = ui.known /\ v.offer = TRUE
  BY <1>8, <1>9, <1>10, <1>11 DEF UI
<1>13. Selecting(v, n) /\ Phase(v)
  BY <1>12 DEF Selecting, Phase
<1>14. v.form.title \notin Node
  BY <1>12, Disjoint DEF NoForm
<1>15. Settled(v, "none", a)
  BY <1>12, <1>13, <1>14, NoFormFacts DEF Settled
<1> QED
  BY <1>12, <1>15 DEF v

LEMMA HeldCommandOk ==
  ASSUME Held, CommandOk PROVE Held'
<1>1. /\ req # None /\ req.op # "field" /\ req' = None /\ box' = "none"
      /\ UNCHANGED asked
  BY DEF CommandOk
<1>2. /\ ui \in UI /\ Shaped(ui.form) /\ Rest(ui) /\ work \in Config /\ active \in Config
      /\ asked \in Node \union {None} /\ ui.load = NoLoad /\ ui.handlers = <<>>
      /\ ~ui.rootload
      /\ ui.form.title \in Node => ui.sel = ui.form.title
      /\ Shown(ui.form, work.val) /\ (work # active => ui.offer)
      /\ \A n \in ui.loaded : \A f \in ToSet(Leaves[n]) : ui.known[f] = work.val[f]
      /\ req.op \in {"Create", "Delete"} =>
           /\ req.of \in Node /\ req.of = ui.form.title /\ ui.sel = req.of
  BY <1>1, CommandFacts
<1>3. req.op \in {"Create", "Delete", "commit", "discard", "view"}
  BY <1>1 DEF Held, Types, Request
<1>4. CASE req.op = "Create"
  <2> DEFINE n == req.of
             new == work.nodes \union {n}
  <2>1. /\ work' = [work EXCEPT !.nodes = new] /\ ui' = Created(n) /\ active' = active
    BY <1>4 DEF CommandOk
  <2>2. n \in Node /\ ui.sel = n
    BY <1>2, <1>4
  <2> HIDE DEF n
  <2>3. /\ work.nodes \in SUBSET Node /\ work.val \in FieldValues
        /\ work = [nodes |-> work.nodes, val |-> work.val]
        /\ \A f \in Field : work.val[f] # {} => Owner(f) \in work.nodes
    BY <1>2 DEF Config
  <2>4. new \in SUBSET Node /\ work.nodes \subseteq new
    BY <2>2, <2>3
  <2> HIDE DEF new
  <2>5. work' = [nodes |-> new, val |-> work.val]
    BY <2>1, <2>3
  <2>6. work' \in Config /\ work'.val = work.val
    BY <2>3, <2>4, <2>5 DEF Config
  <2>7. /\ Settled(ui', "none", asked) /\ ui'.offer = TRUE /\ ui'.loaded \subseteq ui.loaded
        /\ ui'.known = ui.known /\ ui'.form = NoForm
    BY <1>2, <2>1, <2>2, CreatedFacts
  <2>8. Agrees(ui', work'.val) /\ Offers(ui')
    BY <1>2, <2>6, <2>7, NoFormFacts DEF Agrees, Offers
  <2> QED
    BY <1>1, <1>2, <2>1, <2>6, <2>7, <2>8, HeldIdle
<1>5. CASE req.op = "Delete"
  <2> DEFINE n == req.of
             nodes == work.nodes \ {n}
             val == [f \in Field |-> IF Owner(f) = n THEN {} ELSE work.val[f]]
  <2>1. /\ work' = [nodes |-> nodes, val |-> val] /\ ui' = Deleted(n) /\ active' = active
    BY <1>5 DEF CommandOk
  <2>2. n \in Node /\ ui.sel = n
    BY <1>2, <1>5
  <2> HIDE DEF n
  <2>3. /\ work.nodes \in SUBSET Node /\ work.val \in FieldValues
        /\ \A f \in Field : work.val[f] # {} => Owner(f) \in work.nodes
    BY <1>2 DEF Config
  <2>4. val \in FieldValues
    BY <2>3 DEF FieldValues
  <2>5. \A f \in Field : val[f] # {} => Owner(f) \in nodes
    BY <2>3
  <2> HIDE DEF nodes, val
  <2>6. nodes \in SUBSET Node
    BY <2>3 DEF nodes
  <2>7. work' \in Config
    BY <2>1, <2>4, <2>5, <2>6 DEF Config
  <2>8. Settled(ui', "none", asked) /\ (\A w : Agrees(ui', w)) /\ Offers(ui')
    BY <1>2, <2>1, <2>2, DeletedFacts
  <2> QED
    BY <1>1, <1>2, <2>1, <2>7, <2>8, HeldIdle
<1>6. CASE req.op \in {"commit", "discard"}
  <2>1. ui' = Reloaded /\ work' \in {work, active} /\ active' \in {work, active}
    BY <1>6 DEF CommandOk
  <2>2. Settled(ui', "none", asked) /\ (\A w : Agrees(ui', w)) /\ Offers(ui')
    BY <1>2, <2>1, ReloadedFacts
  <2> QED
    BY <1>1, <1>2, <2>1, <2>2, HeldIdle
<1>7. CASE req.op = "view"
  <2>1. UNCHANGED <<ui, work, active>>
    BY <1>7 DEF CommandOk
  <2>2. Settled(ui', "none", asked) /\ Agrees(ui', work'.val)
    BY <1>2, <2>1 DEF Settled, Agrees, Phase
  <2>3. work' # active' => Offers(ui')
    BY <1>2, <2>1 DEF Offers
  <2> QED
    BY <1>1, <1>2, <2>1, <2>2, <2>3, HeldIdle
<1> QED
  BY <1>3, <1>4, <1>5, <1>6, <1>7

LEMMA HeldCommandRefused ==
  ASSUME Held, CommandRefused PROVE Held'
<1>1. /\ req # None /\ req.op # "field" /\ req' = None /\ box' = "alert"
      /\ UNCHANGED <<asked, work, active>>
      /\ ui' = IF req.op = "commit" THEN Reloaded ELSE ui
  BY DEF CommandRefused
<1>2. /\ ui \in UI /\ Shaped(ui.form) /\ Rest(ui) /\ work \in Config /\ active \in Config
      /\ asked \in Node \union {None} /\ ui.load = NoLoad /\ ui.handlers = <<>>
      /\ ~ui.rootload
      /\ ui.form.title \in Node => ui.sel = ui.form.title
      /\ Shown(ui.form, work.val) /\ (work # active => ui.offer)
      /\ \A n \in ui.loaded : \A f \in ToSet(Leaves[n]) : ui.known[f] = work.val[f]
  BY <1>1, CommandFacts
<1>3. CASE req.op = "commit"
  <2>1. Settled(ui', "alert", asked) /\ (\A w : Agrees(ui', w)) /\ Offers(ui')
    BY <1>1, <1>2, <1>3, ReloadedFacts
  <2> QED
    BY <1>1, <1>2, <2>1, HeldIdle
<1>4. CASE req.op # "commit"
  <2>1. ui' = ui
    BY <1>1, <1>4
  <2>2. Settled(ui', "alert", asked) /\ Agrees(ui', work'.val)
    BY <1>1, <1>2, <2>1 DEF Settled, Agrees, Phase
  <2>3. work' # active' => Offers(ui')
    BY <1>1, <1>2, <2>1 DEF Offers
  <2> QED
    BY <1>1, <1>2, <2>2, <2>3, HeldIdle
<1> QED
  BY <1>3, <1>4

----------------------------------------------------------------------------
(* What is loaded *)

\* The marks of all the nodes show whether the session has changes.
LEMMA MarksOffered ==
  ASSUME work \in Config, active \in Config, work # active
  PROVE  Offered(Marks)
<1>1. /\ work.val \in FieldValues /\ active.val \in FieldValues
      /\ work.nodes \subseteq Node /\ active.nodes \subseteq Node
      /\ work = [nodes |-> work.nodes, val |-> work.val]
      /\ active = [nodes |-> active.nodes, val |-> active.val]
      /\ \A f \in Field : /\ work.val[f] # {} => Owner(f) \in work.nodes
                          /\ active.val[f] # {} => Owner(f) \in active.nodes
  BY DEF Config
<1>2. SUFFICES \E n \in Node : Mark(n) \in {"set", "active_plus", "delete"}
  BY DEF Offered, Marks
<1>3. CASE work.nodes # active.nodes
  <2>1. PICK n \in Node : (n \in work.nodes) # (n \in active.nodes)
    BY <1>1, <1>3
  <2>2. Mark(n) \in {"set", "delete"}
    BY <2>1 DEF Mark
  <2> QED
    BY <2>2
<1>4. CASE work.nodes = active.nodes
  <2>1. work.val # active.val
    BY <1>1, <1>4
  <2>2. PICK f \in Field : work.val[f] # active.val[f]
    BY <1>1, <2>1 DEF FieldValues
  <2>3. Owner(f) \in Node /\ f \in ToSet(Leaves[Owner(f)])
    BY OwnerFacts
  <2>4. Owner(f) \in work.nodes /\ Owner(f) \in active.nodes
    BY <1>1, <1>4, <2>2
  <2>5. Mark(Owner(f)) = "active_plus"
    BY <2>2, <2>3, <2>4 DEF Mark
  <2> QED
    BY <2>3, <2>5
<1> QED
  BY <1>3, <1>4

LEMMA MarksFacts ==
  /\ Marks \in [Node -> {"none", "set", "active", "active_plus", "delete"}]
  /\ Offered(Marks) \in BOOLEAN
<1>1. \A n \in Node : Mark(n) \in {"none", "set", "active", "active_plus", "delete"}
  BY DEF Mark
<1> QED
  BY <1>1 DEF Marks, Offered

\* The handler that waits for the root runs when all is rendered.
LEMMA GrownFacts ==
  ASSUME NEW u \in UI, Shaped(u.form), Rest(u), u.loaded = {},
         NEW h \in Handler, h.do # "sent", h.do = "deleted" => h.of \in Node,
         NEW b \in {"none", "alert"}, NEW a \in Node \union {None}
  PROVE  LET v == Run(u, h)
         IN  Settled(v, b, a) /\ (\A w : Agrees(v, w)) /\ v.offer = u.offer
<1> DEFINE v == Run(u, h)
           n == h.of
<1>1. /\ ~u.rootload /\ u.load = NoLoad /\ u.handlers = <<>>
      /\ h.do \in {"path", "deleted"}
  BY DEF Rest, Handler
<1>2. CASE n \notin Node
  <2>1. h.do = "path"
    BY <1>1, <1>2
  <2>2. v = [u EXCEPT !.form = NoForm]
    BY <1>2, <2>1 DEF Run
  <2> HIDE DEF v
  <2>3. /\ v \in UI /\ v.form = NoForm /\ v.load = NoLoad /\ v.handlers = <<>>
        /\ ~v.rootload /\ v.loaded = {} /\ v.offer = u.offer
    BY <1>1, <2>2, NoFormFacts DEF UI
  <2>4. Rest(v) /\ Phase(v) /\ v.form.title \notin Node
    BY <2>3, Disjoint DEF Rest, Phase, NoForm
  <2> QED
    BY <2>3, <2>4, NoFormFacts DEF Settled, Agrees, v
<1>3. CASE n \in Node /\ h.do = "path"
  <2>1. v = RunPath(u, n)
    BY <1>3 DEF Run
  <2> HIDE DEF v, n
  <2> DEFINE load == [u.load EXCEPT ![n] = @ \union {"select"}]
  <2>2. v = [u EXCEPT !.form = NoForm, !.load = load]
    BY <2>1 DEF RunPath, UI
  <2>3. load = Only(n, {"select"})
        /\ Only(n, {"select"}) \in [Node -> SUBSET {"form", "plain", "select"}]
    BY <1>1, <1>3, LoadFacts
  <2> HIDE DEF load
  <2>4. /\ v \in UI /\ v.form = NoForm /\ v.load = Only(n, {"select"}) /\ v.handlers = <<>>
        /\ ~v.rootload /\ v.loaded = {} /\ v.offer = u.offer
    BY <1>1, <2>2, <2>3, NoFormFacts DEF UI
  <2>5. NoForm.title \notin Node
    BY Disjoint DEF NoForm
  <2>7. Selecting(v, n) /\ Phase(v) /\ v.form.title \notin Node
    BY <1>3, <2>4, <2>5 DEF Selecting, Phase
  <2>8. Settled(v, b, a)
    BY <2>4, <2>7, NoFormFacts DEF Settled
  <2> QED
    BY <2>4, <2>8, NoFormFacts DEF Agrees, v
<1>4. CASE n \in Node /\ h.do = "deleted"
  <2>1. v = RunDeleted(u, n)
    BY <1>4 DEF Run
  <2> HIDE DEF v, n
  <2>2. /\ v \in UI /\ v.loaded = {} /\ v.rootload = u.rootload /\ v.handlers = u.handlers
        /\ v.sel = n /\ v.offer = u.offer
        /\ v.load = [u.load EXCEPT ![n] = @ \union {"form"}]
        /\ Shaped(v.form) /\ v.form.title = n /\ \A w : Shown(v.form, w)
    BY <1>4, <2>1, RunDeletedFacts
  <2>3. Phase(v)
    BY <1>1, <1>4, <2>2, OpenPhase
  <2>4. Settled(v, b, a)
    BY <2>2, <2>3 DEF Settled
  <2> QED
    BY <2>2, <2>4 DEF Agrees, v
<1> QED
  BY <1>1, <1>2, <1>3, <1>4

\* Outside of what a load waits for, nothing is in flight.
LEMMA LoadIdle ==
  ASSUME Held, ~Rest(ui)
  PROVE  /\ req = None /\ ui \in UI /\ Shaped(ui.form) /\ Phase(ui)
         /\ box \in {"none", "alert"} /\ asked \in Node \union {None}
         /\ work \in Config /\ active \in Config
         /\ ~ui.rootload => Shown(ui.form, work.val)
         /\ \A n \in ui.loaded : \A f \in ToSet(Leaves[n]) : ui.known[f] = work.val[f]
         /\ work # active => Offers(ui)
<1>1. req = None /\ box # "wait" /\ box # "question"
  BY DEF Held, Waiting
<1>2. ~Pending
  BY <1>1 DEF Pending
<1> QED
  BY <1>1, <1>2 DEF Held, Types, Offers

LEMMA HeldRootLoaded ==
  ASSUME Held, RootLoaded PROVE Held'
<1> DEFINE offer == Offered(Marks)
           u == [ui EXCEPT !.rootload = FALSE, !.conf = Marks, !.avail = offer,
                           !.offer = offer]
           t == [u EXCEPT !.handlers = <<>>]
<1>1. ui.rootload /\ ui' = RunAll(u) /\ UNCHANGED <<box, asked, req, work, active>>
  BY DEF RootLoaded
<1>2. ~Rest(ui)
  BY <1>1 DEF Rest
<1>3. /\ req = None /\ ui \in UI /\ Shaped(ui.form) /\ Phase(ui)
      /\ box \in {"none", "alert"} /\ asked \in Node \union {None}
      /\ work \in Config /\ active \in Config
  BY <1>2, LoadIdle
<1>4. Growing(ui)
  BY <1>1, <1>2, <1>3 DEF Phase, Opening, Resetting, Selecting
<1>5. PICK h \in Handler : /\ ui.handlers = <<h>> /\ h.do # "sent"
                           /\ h.do = "deleted" => h.of \in Node
  BY <1>4 DEF Growing
<1>6. work # active => offer
  BY <1>3, MarksOffered
<1>7. offer \in BOOLEAN
  BY MarksFacts
<1> HIDE DEF offer
<1>8. /\ u \in UI /\ u.form = ui.form /\ u.load = NoLoad /\ u.handlers = <<h>>
      /\ ~u.rootload /\ u.loaded = {} /\ u.offer = offer
  BY <1>3, <1>4, <1>5, <1>7, MarksFacts DEF UI, Growing
<1> HIDE DEF u
<1>9. ui' = Run(t, h)
  BY <1>1, <1>8, RunAllOne
<1>10. /\ t \in UI /\ t.form = ui.form /\ t.load = NoLoad /\ t.handlers = <<>>
       /\ ~t.rootload /\ t.loaded = {} /\ t.offer = offer
  <2>1. u \in UI
    BY <1>8
  <2> DEFINE none == <<>>
  <2>4. none \in Seq(Handler)
    OBVIOUS
  <2>5. t = [u EXCEPT !.handlers = none]
    OBVIOUS
  <2> HIDE DEF none, t
  <2>6. t \in UI /\ t.handlers = none
    BY <2>1, <2>4, <2>5 DEF UI
  <2>2. t \in UI /\ t.handlers = <<>>
    BY <2>6 DEF none
  <2> USE DEF t
  <2>3. /\ t.form = u.form /\ t.load = u.load /\ t.rootload = u.rootload
        /\ t.loaded = u.loaded /\ t.offer = u.offer
    BY <2>1 DEF UI
  <2> HIDE DEF t
  <2> QED
    BY <1>8, <2>2, <2>3
<1> HIDE DEF t
<1>11. Rest(t) /\ Shaped(t.form)
  BY <1>3, <1>10 DEF Rest
<1>12. Settled(ui', box, asked) /\ (\A w : Agrees(ui', w)) /\ ui'.offer = offer
  BY <1>3, <1>5, <1>9, <1>10, <1>11, GrownFacts
<1>13. work' # active' => Offers(ui')
  BY <1>1, <1>6, <1>12 DEF Offers
<1> QED
  BY <1>1, <1>3, <1>12, <1>13, HeldIdle

\* The leaves that arrive have the session's values.
Arrived(u, n, w) ==
  [u EXCEPT !.load[n] = {}, !.loaded = @ \union {n},
            !.known = [f \in Field |-> IF Contains(Leaves[n], f) THEN w[f] ELSE @[f]]]

LEMMA ArrivedFacts ==
  ASSUME NEW u \in UI, NEW n \in Node, NEW w \in FieldValues, u.load[n] # {},
         NEW S, u.load = Only(n, S),
         \A m \in u.loaded : \A f \in ToSet(Leaves[m]) : u.known[f] = w[f]
  PROVE  LET v == Arrived(u, n, w)
         IN  /\ v \in UI /\ v.load = NoLoad /\ v.loaded = u.loaded \union {n}
             /\ \A m \in v.loaded : \A f \in ToSet(Leaves[m]) : v.known[f] = w[f]
             /\ v.form = u.form /\ v.sel = u.sel /\ v.handlers = u.handlers
             /\ v.rootload = u.rootload /\ v.offer = u.offer
<1> DEFINE known == [f \in Field |-> IF Contains(Leaves[n], f) THEN w[f] ELSE u.known[f]]
           load == [u.load EXCEPT ![n] = {}]
           loaded == u.loaded \union {n}
           v == Arrived(u, n, w)
<1>1. v = [u EXCEPT !.load = load, !.loaded = loaded, !.known = known]
  BY DEF UI, Arrived
<1>2. load = NoLoad /\ NoLoad \in [Node -> SUBSET {"form", "plain", "select"}]
  <2>1. \A T : [Only(n, T) EXCEPT ![n] = {}] = NoLoad
    BY LoadFacts
  <2>2. NoLoad \in [Node -> SUBSET {"form", "plain", "select"}]
    BY LoadFacts
  <2> QED
    BY <2>1, <2>2
<1>3. u.known \in FieldValues /\ loaded \in SUBSET Node
  BY DEF UI
<1>4. known \in FieldValues
  <2>1. known \in [Field -> SUBSET Value]
    BY <1>3 DEF FieldValues
  <2>2. \A f \in Field : known[f] \subseteq Choice[f]
    BY <1>3 DEF FieldValues
  <2> QED
    BY <2>1, <2>2 DEF FieldValues
<1>5. \A m \in loaded : \A f \in ToSet(Leaves[m]) : known[f] = w[f]
  <2>1. SUFFICES ASSUME NEW m \in loaded, NEW f \in ToSet(Leaves[m])
                 PROVE  known[f] = w[f]
    OBVIOUS
  <2>2. f \in Field
    BY <1>3, LeafFacts
  <2>3. CASE m = n
    <3>1. PICK i \in 1..Len(Leaves[n]) : Leaves[n][i] = f
      BY <2>3, LeafFacts
    <3>2. Contains(Leaves[n], f)
      BY <3>1, LeafFacts DEF Contains
    <3> QED
      BY <2>2, <3>2
  <2>4. CASE m # n
    BY <2>2, <2>4
  <2> QED
    BY <2>3, <2>4
<1> HIDE DEF v, known, load, loaded
<1>6. /\ v \in UI /\ v.load = load /\ v.loaded = loaded /\ v.known = known
      /\ v.form = u.form /\ v.sel = u.sel /\ v.handlers = u.handlers
      /\ v.rootload = u.rootload /\ v.offer = u.offer
  BY <1>1, <1>2, <1>3, <1>4 DEF UI
<1> QED
  BY <1>2, <1>5, <1>6 DEF v, loaded

LEMMA HeldNodeLoaded ==
  ASSUME Held, NEW n \in Node, NodeLoaded(n) PROVE Held'
<1> DEFINE w == work.val
           u == Arrived(ui, n, w)
           got == RunAll(u)
<1>1. /\ ui.load[n] # {} /\ UNCHANGED <<box, asked, req, work, active>>
      /\ ui' = IF "select" \in ui.load[n] THEN Select(got, n)
               ELSE IF "form" \in ui.load[n] THEN Fill(got, n) ELSE got
  BY DEF NodeLoaded, Arrived
<1>2. NoLoad[n] = {} /\ \A S : \A m \in Node : Only(m, S)[n] # {} => m = n
  BY LoadFacts
<1>3. ~Rest(ui) /\ ~Growing(ui)
  BY <1>1, <1>2 DEF Rest, Growing
<1>4. /\ req = None /\ ui \in UI /\ Shaped(ui.form) /\ Phase(ui)
      /\ box \in {"none", "alert"} /\ asked \in Node \union {None}
      /\ work \in Config /\ active \in Config
      /\ ~ui.rootload => Shown(ui.form, w)
      /\ \A m \in ui.loaded : \A f \in ToSet(Leaves[m]) : ui.known[f] = w[f]
      /\ work # active => Offers(ui)
  BY <1>3, LoadIdle
<1>5. Opening(ui, n) \/ Resetting(ui, n) \/ Selecting(ui, n)
  BY <1>1, <1>2, <1>3, <1>4 DEF Phase, Opening, Resetting, Selecting
<1>6. w \in FieldValues /\ ~ui.rootload
  BY <1>4, <1>5 DEF Config, Opening, Resetting, Selecting
<1>7. PICK S \in {{"form"}, {"plain"}, {"select"}, {"plain", "select"}} : ui.load = Only(n, S)
  BY <1>5 DEF Opening, Resetting, Selecting
<1> HIDE DEF got
<1>8. /\ u \in UI /\ u.load = NoLoad /\ u.loaded = ui.loaded \union {n}
      /\ \A m \in u.loaded : \A f \in ToSet(Leaves[m]) : u.known[f] = w[f]
      /\ u.form = ui.form /\ u.sel = ui.sel /\ u.handlers = ui.handlers
      /\ u.rootload = ui.rootload /\ u.offer = ui.offer
  BY <1>1, <1>4, <1>6, <1>7, ArrivedFacts
<1> HIDE DEF u
<1>9. \A T : Only(n, T)[n] = T
  BY LoadFacts
<1>10. /\ Shaped(u.form) /\ n \in u.loaded /\ Shown(u.form, w)
       /\ \A f \in ToSet(Leaves[n]) : u.known[f] = w[f]
  BY <1>4, <1>6, <1>8
<1>11. SUFFICES /\ ui' \in UI /\ Shaped(ui'.form) /\ Rest(ui') /\ Shown(ui'.form, w)
                /\ ui'.known = u.known /\ ui'.loaded = u.loaded
                /\ ui'.form.title = n /\ ui'.sel = n
                /\ ui'.offer = u.offer \/ ui'.offer = TRUE
                /\ Resetting(ui, n) => ui'.offer = TRUE
  <2>1. Settled(ui', box', asked') /\ Agrees(ui', w)
    BY <1>1, <1>4, <1>8, <1>11 DEF Settled, Agrees, Phase
  <2>2. work' # active' => Offers(ui')
    <3>1. SUFFICES ASSUME work # active PROVE ui'.offer
      BY <1>1 DEF Offers
    <3>2. Offers(ui)
      BY <1>4, <3>1
    <3>3. CASE ui.offer
      BY <1>8, <1>11, <3>3
    <3>4. CASE Resetting(ui, n)
      BY <1>11, <3>4
    <3>5. \A m \in Node : Resetting(ui, m) => m = n
      BY <1>1, <1>2 DEF Resetting
    <3> QED
      BY <1>6, <3>2, <3>3, <3>4, <3>5 DEF Offers
  <2> QED
    BY <1>1, <1>4, <2>1, <2>2, HeldIdle
<1>12. CASE Opening(ui, n)
  <2>1. u.handlers = <<>> /\ ui.load[n] = {"form"} /\ u.form.title = n /\ u.sel = n
    BY <1>8, <1>9, <1>12 DEF Opening
  <2>2. got = u
    BY <1>8, <2>1, RunAllNone DEF got
  <2>3. ui' = Fill(u, n)
    BY <1>1, <2>1, <2>2
  <2>4. /\ ui' \in UI /\ SameTree(u, ui') /\ ui'.load = u.load
        /\ Shaped(ui'.form) /\ ui'.form.title = n
    BY <1>8, <1>10, <2>1, <2>3, FillFacts
  <2>5. Shown(ui'.form, w)
    BY <1>8, <1>10, <2>1, <2>3, FillShown
  <2>6. ~Resetting(ui, n)
    BY <1>8, <2>1 DEF Resetting
  <2> QED
    BY <1>6, <1>8, <2>1, <2>4, <2>5, <2>6 DEF SameTree, Rest
<1>13. CASE Resetting(ui, n)
  <2> DEFINE h == [do |-> "sent", of |-> n]
             t == [u EXCEPT !.handlers = <<>>]
  <2>1. u.handlers = <<h>> /\ ui.load[n] = {"plain"} /\ u.form.title = n /\ u.sel = n
    BY <1>8, <1>9, <1>13 DEF Resetting
  <2>2. h.do = "sent" /\ h.of = n
    OBVIOUS
  <2> HIDE DEF h
  <2>3. got = Run(t, h)
    BY <1>8, <2>1, RunAllOne DEF got
  <2>4. t \in UI /\ t.handlers = <<>>
    <3> DEFINE none == <<>>
    <3>1. none \in Seq(Handler) /\ t = [u EXCEPT !.handlers = none]
      OBVIOUS
    <3> HIDE DEF none, t
    <3>2. t \in UI /\ t.handlers = none
      BY <1>8, <3>1 DEF UI
    <3> QED
      BY <3>2 DEF none
  <2>5. /\ t.form = u.form /\ t.load = u.load /\ t.rootload = u.rootload /\ t.sel = u.sel
        /\ t.loaded = u.loaded /\ t.offer = u.offer /\ t.known = u.known
    BY <1>8 DEF UI
  <2> HIDE DEF t
  <2>6. ui' = RunSent(t, n)
    BY <1>1, <2>1, <2>2, <2>3 DEF Run
  <2>9. n \in t.loaded /\ Shaped(t.form) /\ t.form.title = n
    BY <1>10, <2>1, <2>5
  <2>7. /\ ui' \in UI /\ ui'.known = t.known /\ ui'.loaded = t.loaded
        /\ ui'.rootload = t.rootload /\ ui'.handlers = t.handlers
        /\ ui'.sel = t.sel /\ ui'.offer = TRUE /\ ui'.load = t.load
        /\ Shaped(ui'.form) /\ ui'.form.title = n
    BY <2>4, <2>6, <2>9, RunSentFacts
  <2>8. Shown(ui'.form, w)
    <3> HIDE DEF w
    <3>1. StillShown(t, RunSent(t, n), n)
      BY <2>4, <2>9, RunSentFacts
    <3>2. Shown(t.form, w) /\ \A f \in ToSet(Leaves[n]) : t.known[f] = w[f]
      BY <1>10, <2>5
    <3> QED
      BY <2>6, <3>1, <3>2 DEF StillShown
  <2> QED
    BY <1>6, <1>8, <2>1, <2>4, <2>5, <2>7, <2>8 DEF Rest
<1>14. CASE Selecting(ui, n)
  <2>1. u.handlers = <<>> /\ "select" \in ui.load[n]
    BY <1>8, <1>9, <1>14 DEF Selecting
  <2>2. got = u
    BY <1>8, <2>1, RunAllNone DEF got
  <2>3. ui' = Select(u, n)
    BY <1>1, <2>1, <2>2
  <2>4. /\ ui' \in UI /\ ui'.known = u.known /\ ui'.loaded = u.loaded
        /\ ui'.rootload = u.rootload /\ ui'.handlers = u.handlers
        /\ ui'.sel = n /\ ui'.offer = u.offer
        /\ ui'.load = IF n \in u.loaded THEN u.load
                      ELSE [u.load EXCEPT ![n] = @ \union {"form"}]
        /\ Shaped(ui'.form) /\ ui'.form.title = n
    BY <1>8, <1>10, <2>3, SelectFacts
  <2>5. Shown(ui'.form, w)
    <3>1. KeepsShown(u, ui', n)
      BY <1>8, <1>10, <2>3, SelectFacts
    <3> QED
      BY <1>10, <3>1 DEF KeepsShown
  <2>6. ~Resetting(ui, n)
    BY <1>8, <2>1 DEF Resetting
  <2> QED
    BY <1>6, <1>8, <1>10, <2>1, <2>4, <2>5, <2>6 DEF Rest
<1> QED
  BY <1>5, <1>12, <1>13, <1>14

----------------------------------------------------------------------------
(* The invariant *)

LEMMA StartFacts == \A c \in Start : c \in Config
<1> SUFFICES ASSUME NEW c \in Start PROVE c \in Config
  OBVIOUS
<1>1. /\ c \in [nodes : SUBSET Node, val : [Field -> UNION {Values(f) : f \in Field}]]
      /\ \A f \in Field : /\ c.val[f] \in Values(f)
                          /\ c.val[f] # {} => Owner(f) \in c.nodes
  BY StartOK DEF Configs
<1>2. \A f \in Field : c.val[f] \subseteq Choice[f]
  BY <1>1 DEF Values
<1>3. \A f \in Field : Choice[f] \subseteq Value
  BY DEF Value
<1>4. c.val \in FieldValues
  BY <1>1, <1>2, <1>3 DEF FieldValues
<1> QED
  BY <1>1, <1>4 DEF Config

LEMMA InitHeld ==
  ASSUME Init PROVE Held
<1> DEFINE offer == Offered(Marks)
<1>1. /\ work \in Config /\ active \in Config /\ work = active
      /\ box = "none" /\ asked = None /\ req = None
  BY StartFacts DEF Init
<1>2. ui = [conf |-> Marks, known |-> work.val, loaded |-> {}, load |-> NoLoad,
            rootload |-> FALSE, handlers |-> <<>>, sel |-> None, mine |-> None,
            showLeaf |-> TRUE, form |-> NoForm, dirty |-> FALSE, avail |-> offer,
            offer |-> offer, next |-> 1, num |-> 0, errs |-> {}, sent |-> {}]
  BY DEF Init, NoLoad
<1>3. /\ Marks \in [Node -> {"none", "set", "active", "active_plus", "delete"}]
      /\ offer \in BOOLEAN
  BY MarksFacts
<1>4. work.val \in FieldValues
  BY <1>1 DEF Config
<1>5. NoLoad \in [Node -> SUBSET {"form", "plain", "select"}]
  BY DEF NoLoad
<1> HIDE DEF offer
<1>6. ui \in UI
  BY <1>2, <1>3, <1>4, <1>5, NoFormFacts DEF UI, Place
<1>7. Rest(ui) /\ Phase(ui) /\ ui.loaded = {} /\ ui.form = NoForm
  BY <1>2 DEF Rest, Phase
<1>8. NoForm.title \notin Node
  BY Disjoint DEF NoForm
<1>9. Types /\ ~Pending
  BY <1>1, <1>6 DEF Types, Pending
<1> QED
  BY <1>1, <1>7, <1>8, <1>9, NoFormFacts DEF Held

\* Steps that are not odd leave odd as it is.
LEMMA OddFacts ==
  ASSUME odd \in Nat, [Next]_vars
  PROVE  odd' \in Nat /\ (odd' = 0 => odd = 0)
<1>1. SUFFICES odd' \in {odd, odd + 1}
  OBVIOUS
<1>2. ASSUME NEW b, Odd(b) PROVE odd' \in {odd, odd + 1}
  BY <1>2 DEF Odd
<1>3. CASE UNCHANGED vars
  BY <1>3 DEF vars, bounds
<1>4. ASSUME NEW n \in Node, NodeClick(n) PROVE odd' \in {odd, odd + 1}
  BY <1>2, <1>4 DEF NodeClick
<1>5. ASSUME NEW yes \in BOOLEAN, Question(yes) PROVE odd' \in {odd, odd + 1}
  BY <1>2, <1>5 DEF Question
<1>6. ASSUME NEW f \in Field, EditText(f) \/ EditCheck(f) \/ PressGrid(f)
      PROVE  odd' \in {odd, odd + 1}
  BY <1>6 DEF EditText, EditCheck, PressGrid, Editing
<1>7. ASSUME NEW enter \in BOOLEAN, Set(enter) PROVE odd' \in {odd, odd + 1}
  BY <1>2, <1>7 DEF Set
<1>8. ASSUME NEW c, NEW n, SendCommand(c, n) PROVE odd' \in {odd, odd + 1}
  BY <1>2, <1>8 DEF SendCommand
<1>9. ASSUME NEW c, Toolbar(c) PROVE odd' \in {odd, odd + 1}
  BY <1>8, <1>9 DEF Toolbar
<1>10. CASE NodeButton \/ Dismiss
  BY <1>8, <1>10 DEF NodeButton, Dismiss, bounds
<1>11. CASE User
  BY <1>4, <1>5, <1>6, <1>7, <1>9, <1>10, <1>11 DEF User
<1>12. CASE FieldOk \/ FieldRefused
  BY <1>12 DEF FieldOk, FieldRefused, bounds
<1>13. CASE CommandOk \/ CommandRefused
  BY <1>13 DEF CommandOk, CommandRefused, bounds
<1>14. CASE Lost
  BY <1>2, <1>14 DEF Lost
<1>15. CASE RootLoaded \/ \E n \in Node : NodeLoaded(n)
  BY <1>15 DEF RootLoaded, NodeLoaded, bounds
<1> QED
  BY <1>3, <1>11, <1>12, <1>13, <1>14, <1>15 DEF Next, Answered

LEMMA HeldStutter ==
  ASSUME Held, UNCHANGED vars PROVE Held'
<1>1. UNCHANGED <<ui, box, asked, req, work, active>>
  BY DEF vars
<1>2. CASE req = None
  <2>1. /\ Settled(ui, box, asked) /\ Agrees(ui, work.val) /\ work \in Config
        /\ active \in Config /\ (work # active => Offers(ui))
    BY <1>2, IdleHeld
  <2> QED
    BY <1>1, <1>2, <2>1, HeldIdle
<1>3. CASE req # None
  <2>1. Pending' = Pending
    BY <1>1 DEF Pending
  <2>2. Waiting' /\ Types'
    BY <1>1, <1>3, <2>1 DEF Held, Waiting, Types
  <2> QED
    BY <1>1, <1>3, <2>1, <2>2 DEF Held
<1> QED
  BY <1>2, <1>3

LEMMA HeldStep ==
  ASSUME Held, odd = 0, odd' = 0, [Next]_vars PROVE Held'
<1>1. CASE UNCHANGED vars
  BY <1>1, HeldStutter
<1>2. CASE User
  BY <1>2, HeldNodeClick, HeldQuestion, HeldEdits, HeldSet, HeldButtons, HeldDismiss DEF User
<1>3. CASE Answered
  <2>1. ~Lost
    BY DEF Lost, Odd
  <2> QED
    BY <1>3, <2>1, HeldFieldOk, HeldFieldRefused, HeldCommandOk, HeldCommandRefused
       DEF Answered
<1>4. CASE RootLoaded \/ \E n \in Node : NodeLoaded(n)
  BY <1>4, HeldRootLoaded, HeldNodeLoaded
<1> QED
  BY <1>1, <1>2, <1>3, <1>4 DEF Next

\* As long as no step was odd, what the browser shows, waits for and sends fits together.
THEOREM EditorInvariant == Spec => []EditorInv
<1>1. Init => EditorInv
  BY InitHeld DEF EditorInv, Init
<1>2. EditorInv /\ [Next]_vars => EditorInv'
  BY OddFacts, HeldStep DEF EditorInv
<1> QED
  BY <1>1, <1>2, PTL DEF Spec

----------------------------------------------------------------------------
(* The properties *)

\* Every field goes to the path of the node whose form it is, though the browser takes the
\* path from whatever is selected when the field's turn comes (f_sendConfFormCommand).
THEOREM SentToItsNodeTheorem == Spec => []SentToItsNode
<1>1. EditorInv => SentToItsNode
  BY PendingFacts DEF EditorInv, SentToItsNode, Pending
<1> QED
  BY <1>1, EditorInvariant, PTL

\* At rest a form shows what the session has, whatever was set, refused, created, deleted,
\* committed and discarded before (f_handleFormIndicators, f_handlePropagateParentNodes).
THEOREM FormIsSessionTheorem == Spec => []FormIsSession
<1>1. ASSUME EditorInv, odd = 0, req = None, ~Loading,
             NEW f \in ToSet(ui.form.items) \ ({Submit} \union ui.form.flag
                                                 \union ui.form.edited \union ui.form.twice)
      PROVE  ui.form.val[f] = work.val[f]
  <2>1. Rest(ui) /\ ui \in UI /\ Shaped(ui.form) /\ Shown(ui.form, work.val)
    BY <1>1, NotLoading, IdleFacts DEF EditorInv, Rest
  <2>2. ui.form.items # <<>>
    BY <1>1 DEF ToSet
  <2>3. Full(ui.form)
    BY <2>1, <2>2 DEF Shaped
  <2>4. PICK i \in DOMAIN ui.form.items : f = ui.form.items[i]
    BY <1>1 DEF ToSet
  <2>5. i # Len(ui.form.items)
    BY <1>1, <2>3, <2>4, FullFacts
  <2>6. i \in DOMAIN ui.form.items \ {Len(ui.form.items)}
    BY <2>4, <2>5
  <2>7. /\ f \notin List => /\ f \notin ui.form.flag => ui.form.orig[f] = work.val[f]
                            /\ f \notin ui.form.edited => ui.form.val[f] = ui.form.orig[f]
        /\ f \in List => (f \notin ui.form.twice \union ui.form.flag \union ui.form.edited
                            => ui.form.val[f] = work.val[f])
    BY <2>1, <2>4, <2>6 DEF Shown
  <2> QED
    BY <1>1, <2>7
<1>2. EditorInv => FormIsSession
  BY <1>1 DEF FormIsSession
<1> QED
  BY <1>2, EditorInvariant, PTL

\* At rest the toolbar offers commit and discard whenever the session has changes, by the
\* marks of the nodes (f_onRenderer) and by what was set since (f_updateToolbarButton).
THEOREM CommitOfferedTheorem == Spec => []CommitOffered
<1>1. EditorInv => CommitOffered
  BY NotLoading, IdleFacts DEF EditorInv, CommitOffered
<1> QED
  BY <1>1, EditorInvariant, PTL

\* The wait box is up only while an answer is to come, so that the user is never kept out
\* for good by a form that got stuck half sent (f_sendConfFormCommand).
THEOREM WaitHasRequestTheorem == Spec => []WaitHasRequest
<1>1. EditorInv => WaitHasRequest
  BY DEF EditorInv, WaitHasRequest, Held
<1> QED
  BY <1>1, EditorInvariant, PTL
=============================================================================
