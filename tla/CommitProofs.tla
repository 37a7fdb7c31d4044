--------------------------- MODULE CommitProofs ---------------------------
(* Theorems about Commit, for any configuration trees, edits, commits of     *)
(* other sessions, choices of the caller and deaths of the commit.           *)
EXTENDS Commit, FiniteSetTheorems, WellFoundedInduction, TLAPS

----------------------------------------------------------------------------
(* Trees, and the session's changes as a layer over one *)

Plain == [dir : SUBSET Node, val : [Leaf -> SUBSET Value], def : SUBSET Leaf]

Layer == [dir : SUBSET Node, val : [Leaf -> SUBSET Value], def : SUBSET Leaf,
          wh : SUBSET Node, opq : SUBSET Node, whdef : SUBSET Leaf]

Sound(t) ==
  /\ Closed(t.dir)
  /\ \A x \in Leaf : t.val[x] \in Content(x) /\ (t.val[x] # {} => x \in t.dir)
  /\ \A x \in t.def : t.val[x] # {}

LayerOK(c) == c \in Layer /\ Sound(c) /\ c.wh \intersect c.dir = {} /\ c.opq \subseteq c.dir

LEMMA Trees == \A t : t \in Tree <=> t \in Plain /\ Sound(t)
  BY DEF Tree, Plain, Sound

LEMMA Ancestors ==
  ASSUME NEW p \in Node
  PROVE  /\ Above[p] \subseteq Node /\ Closed(Above[p]) /\ p \notin Above[p]
         /\ Closed(Above[p] \union {p})
  BY NodesOK DEF Closed

----------------------------------------------------------------------------
(* Paths are finite: a set of directories has a topmost one, and an entry a   *)
(* directory it is in.                                                        *)

Less == {ss \in Nat \X Nat : ss[1] < ss[2]}

LEMMA LessWellFounded == IsWellFoundedOn(Less, Nat)
<1>1. Less = OpToRel(<, Nat)
  BY DEF Less, OpToRel
<1> QED
  BY <1>1, NatLessThanWellFounded

LEMMA Least ==
  ASSUME NEW T \in SUBSET Nat, T # {}
  PROVE  \E m \in T : \A n \in T : m <= n
<1>1. PICK m \in T : \A n \in T : <<n, m>> \notin Less
  BY LessWellFounded, WFMin
<1>2. ASSUME NEW n \in T PROVE m <= n
  <2>1. <<n, m>> \in Nat \X Nat /\ ~(<<n, m>>[1] < <<n, m>>[2])
    BY <1>1 DEF Less
  <2> QED
    BY <2>1
<1> QED
  BY <1>2

Depth(p) == Cardinality(Above[p])

LEMMA Deeper ==
  ASSUME NEW p \in Node
  PROVE  /\ Depth(p) \in Nat
         /\ \A q \in Above[p] : Depth(q) \in Nat /\ Depth(q) < Depth(p)
<1>1. \A q \in Node : IsFiniteSet(Above[q]) /\ Depth(q) \in Nat
  BY NodesOK, FS_CardinalityType DEF Depth
<1>2. ASSUME NEW q \in Above[p] PROVE Depth(q) < Depth(p)
  <2>1. q \in Node /\ Above[q] \in SUBSET Above[p] /\ Above[q] # Above[p]
    BY NodesOK DEF Closed
  <2>2. Depth(q) <= Depth(p) /\ Depth(q) # Depth(p)
    BY <1>1, <2>1, FS_Subset DEF Depth
  <2> QED
    BY <1>1, <2>1, <2>2
<1> QED
  BY <1>1, <1>2, NodesOK

LEMMA Topmost ==
  ASSUME NEW S \in SUBSET Node, S # {}
  PROVE  \E t \in S : Above[t] \intersect S = {}
<1> DEFINE T == {Depth(r) : r \in S}
<1>1. T \in SUBSET Nat /\ T # {}
  BY Deeper
<1>2. PICK m \in T : \A n \in T : m <= n
  BY <1>1, Least
<1>3. PICK t \in S : m = Depth(t)
  OBVIOUS
<1>4. ASSUME NEW u \in Above[t] \intersect S PROVE FALSE
  <2>1. Depth(u) \in Nat /\ Depth(u) < Depth(t) /\ m <= Depth(u)
    BY <1>2, Deeper
  <2> QED
    BY <1>1, <1>3, <2>1
<1> QED
  BY <1>4

LEMMA Parent ==
  ASSUME NEW p \in Node, Above[p] # {}
  PROVE  \E u \in Above[p] : Inside(p, u)
<1> DEFINE M == {m \in Nat : \A r \in Above[p] : Depth(r) <= m}
<1>1. \A r \in Above[p] : r \in Node /\ Depth(r) \in Nat
  BY Ancestors, Deeper
<1>2. Depth(p) \in Nat /\ \A r \in Above[p] : Depth(r) < Depth(p)
  BY Deeper
<1>3. Depth(p) \in M /\ M \in SUBSET Nat
  BY <1>1, <1>2
<1>4. PICK m \in M : \A n \in M : m <= n
  BY <1>3, Least
<1>5. \E u \in Above[p] : Depth(u) = m
  <2> SUFFICES ASSUME \A r \in Above[p] : Depth(r) # m PROVE FALSE
    OBVIOUS
  <2>1. \A r \in Above[p] : Depth(r) < m
    BY <1>1
  <2>2. m - 1 \in M
    BY <1>1, <2>1
  <2> QED
    BY <1>4, <2>2
<1>6. PICK u \in Above[p] : Depth(u) = m
  BY <1>5
<1>7. ASSUME NEW r \in Above[p], r # u PROVE r \in Above[u]
  <2>1. r \in Above[u] \/ u \in Above[r]
    BY <1>1, <1>7, NodesOK
  <2>2. u \in Above[r] => Depth(u) < Depth(r)
    BY <1>1, Deeper
  <2>3. Depth(r) <= Depth(u)
    BY <1>6
  <2> QED
    BY <1>1, <2>1, <2>2, <2>3
<1>8. Above[u] \subseteq Above[p]
  BY Ancestors DEF Closed
<1> QED
  BY <1>7, <1>8 DEF Inside

LEMMA NoContent == \A x \in Leaf : {} \in Content(x)
  BY DEF Content

\* Cutting a directory off, with all below it
LEMMA CutClosed ==
  ASSUME NEW D \in SUBSET Node, Closed(D), NEW p \in Node
  PROVE  Closed(D \ At(p))
<1> SUFFICES ASSUME NEW q \in D \ At(p), NEW r \in Above[q] PROVE r \in D \ At(p)
  BY DEF Closed
<1>1. r \in D /\ r \in Node
  BY DEF Closed
<1>2. Above[r] \subseteq Above[q]
  BY Ancestors DEF Closed
<1> QED
  BY <1>1, <1>2 DEF At, Below

LEMMA StripClosed ==
  ASSUME NEW D \in SUBSET Node, Closed(D), NEW p \in Node, Below(p) \intersect D = {}
  PROVE  Closed(D \ {p})
  BY DEF Closed, Below

LEMMA UnionClosed ==
  ASSUME NEW D \in SUBSET Node, NEW E \in SUBSET Node, Closed(D), Closed(E)
  PROVE  Closed(D \union E)
  BY DEF Closed

LEMMA WithoutType ==
  ASSUME NEW v \in [Leaf -> SUBSET Value], NEW P
  PROVE  /\ Without(v, P) \in [Leaf -> SUBSET Value]
         /\ \A x \in Leaf : Without(v, P)[x] = IF x \in P THEN {} ELSE v[x]
  BY DEF Without

\* What the union shows of sound configurations is sound.
LEMMA UnionSound ==
  ASSUME NEW c, LayerOK(c), NEW a \in Plain, Sound(a)
  PROVE  Union(c, a) \in Plain /\ Sound(Union(c, a))
<1> DEFINE u == Union(c, a)
<1>1. c \in Layer /\ Sound(c)
  BY DEF LayerOK
<1>2. u \in Plain
  BY <1>1 DEF Union, Layer, Plain
<1>3. Closed(u.dir)
  <2> SUFFICES ASSUME NEW p \in u.dir, NEW q \in Above[p] PROVE q \in u.dir
    BY DEF Closed
  <2>1. CASE p \in c.dir
    BY <1>1, <2>1 DEF Sound, Closed, Union
  <2>2. CASE p \in a.dir /\ ~Covered(c, p)
    <3>1. q \in a.dir /\ p \in Node
      BY <2>2 DEF Sound, Closed, Plain
    <3>2. Above[q] \subseteq Above[p]
      BY <3>1, Ancestors DEF Closed
    <3>3. ~Covered(c, q)
      BY <2>2, <3>2 DEF Covered
    <3> QED
      BY <3>1, <3>3 DEF Union
  <2> QED
    BY <2>1, <2>2 DEF Union
<1>4. ASSUME NEW x \in Leaf
      PROVE  u.val[x] \in Content(x) /\ (u.val[x] # {} => x \in u.dir)
  <2>1. u.val[x] = IF c.val[x] # {} THEN c.val[x] ELSE IF FileCovered(c, x) THEN {} ELSE a.val[x]
    BY DEF Union
  <2> QED
    BY <1>1, <2>1, NoContent DEF Sound, FileCovered, Union
<1>5. ASSUME NEW x \in u.def PROVE u.val[x] # {}
  <2>1. x \in Leaf
    BY <1>2 DEF Plain
  <2>2. u.val[x] = IF c.val[x] # {} THEN c.val[x] ELSE IF FileCovered(c, x) THEN {} ELSE a.val[x]
    BY <2>1 DEF Union
  <2> QED
    BY <1>1, <2>2 DEF Sound, Union
<1> QED
  BY <1>2, <1>3, <1>4, <1>5 DEF Sound

\* Making directories: those the union did not show are opaque, and hide nothing else.
LEMMA MkdirOK ==
  ASSUME NEW c, LayerOK(c), NEW a \in Plain, Sound(a), NEW p \in Node
  PROVE  /\ LayerOK(Mkdir(c, a, p))
         /\ Mkdir(c, a, p).dir = c.dir \union Above[p] \union {p}
         /\ Mkdir(c, a, p).val = c.val /\ Mkdir(c, a, p).def = c.def
         /\ Mkdir(c, a, p).whdef = c.whdef
<1> DEFINE path == Above[p] \union {p}
           new == path \ Union(c, a).dir
           m == Mkdir(c, a, p)
<1>1. c \in Layer /\ Sound(c) /\ c.wh \intersect c.dir = {} /\ c.opq \subseteq c.dir
  BY DEF LayerOK
<1>2. path \in SUBSET Node /\ Closed(path)
  BY Ancestors
<1>3. /\ m.dir = c.dir \union path /\ m.opq = c.opq \union new /\ m.wh = c.wh \ new
      /\ m.val = c.val /\ m.def = c.def /\ m.whdef = c.whdef
  BY <1>1 DEF Mkdir, Layer
<1>4. m \in Layer
  BY <1>1, <1>2 DEF Mkdir, Layer
<1>5. Closed(c.dir \union path)
  BY <1>1, <1>2, UnionClosed DEF Layer, Sound
<1>6. Sound(m)
  BY <1>1, <1>3, <1>5 DEF Sound
<1>7. m.wh \intersect m.dir = {}
  <2>1. \A q \in path \ new : q \in c.dir \/ q \notin c.wh
    BY DEF Union, Covered
  <2> QED
    BY <1>1, <1>3, <2>1
<1>8. m.opq \subseteq m.dir
  BY <1>1, <1>3
<1> QED
  BY <1>3, <1>4, <1>6, <1>7, <1>8 DEF LayerOK

LEMMA PutOK ==
  ASSUME NEW c, LayerOK(c), NEW a \in Plain, Sound(a), NEW x \in Leaf,
         NEW V \in Content(x) \ {{}}, NEW d \in BOOLEAN
  PROVE  LayerOK(Put(c, a, x, V, d))
<1> DEFINE m == Mkdir(c, a, x)
           n == Put(c, a, x, V, d)
<1>1. x \in Node /\ V \in SUBSET Value
  BY LeavesOK DEF Content
<1>2. LayerOK(m) /\ x \in m.dir
  BY <1>1, MkdirOK
<1>3. m \in Layer /\ Sound(m) /\ m.wh \intersect m.dir = {} /\ m.opq \subseteq m.dir
  BY <1>2 DEF LayerOK
<1>4. /\ n.dir = m.dir /\ n.wh = m.wh /\ n.opq = m.opq /\ n.val = [m.val EXCEPT ![x] = V]
      /\ n.def = IF d THEN m.def \union {x} ELSE m.def \ {x}
      /\ n.whdef = IF ~d /\ x \in a.def /\ ~FileCovered(m, x)
                   THEN m.whdef \union {x} ELSE m.whdef \ {x}
      /\ n = [m EXCEPT !.val = n.val, !.def = n.def, !.whdef = n.whdef]
  BY <1>3 DEF Put, Layer
<1>5. /\ n.val \in [Leaf -> SUBSET Value]
      /\ \A y \in Leaf : n.val[y] = IF y = x THEN V ELSE m.val[y]
  BY <1>1, <1>3, <1>4 DEF Layer
<1>6. n.def \in SUBSET Leaf /\ n.whdef \in SUBSET Leaf
  BY <1>3, <1>4 DEF Layer
<1>7. n \in Layer
  BY <1>3, <1>4, <1>5, <1>6 DEF Layer
<1>8. Sound(n)
  <2>1. \A y \in n.def : n.val[y] # {}
    BY <1>3, <1>4, <1>5, <1>6 DEF Sound
  <2> QED
    BY <1>2, <1>3, <1>4, <1>5, <2>1 DEF Sound
<1> QED
  BY <1>3, <1>4, <1>7, <1>8 DEF LayerOK

LEMMA RemoveOK ==
  ASSUME NEW c, LayerOK(c), NEW a \in Plain, Sound(a), NEW p \in Union(c, a).dir
  PROVE  LayerOK(Remove(c, a, p))
<1> DEFINE n == Remove(c, a, p)
<1>1. c \in Layer /\ Sound(c) /\ c.wh \intersect c.dir = {} /\ c.opq \subseteq c.dir
  BY DEF LayerOK
<1>2. p \in Node
  BY <1>1 DEF Union, Layer, Plain
<1>3. Above[p] \in SUBSET Node /\ Closed(Above[p])
  BY <1>2, Ancestors
<1>4. Closed(c.dir \ At(p)) /\ c.dir \ At(p) \in SUBSET Node
  BY <1>1, <1>2, CutClosed DEF Layer, Sound
<1>5. Closed(n.dir)
  BY <1>3, <1>4, UnionClosed DEF Remove
<1>6. /\ Without(c.val, At(p)) \in [Leaf -> SUBSET Value]
      /\ \A x \in Leaf : Without(c.val, At(p))[x] = IF x \in At(p) THEN {} ELSE c.val[x]
  <2>1. c.val \in [Leaf -> SUBSET Value]
    BY <1>1 DEF Layer
  <2> QED
    BY <2>1, WithoutType
<1>7. n \in Layer
  BY <1>1, <1>2, <1>3, <1>6 DEF Remove, Layer
<1>8. Sound(n)
  <2>1. \A x \in Leaf : n.val[x] \in Content(x) /\ (n.val[x] # {} => x \in n.dir)
    BY <1>1, <1>6, NoContent DEF Remove, Sound
  <2>2. \A x \in n.def : n.val[x] # {}
    BY <1>1, <1>6 DEF Remove, Sound, Layer
  <2> QED
    BY <1>5, <2>1, <2>2 DEF Sound
<1>9. c.wh \intersect Above[p] = {}
  BY <1>1 DEF Union, Covered, Sound, Closed
<1>10. p \notin Above[p] /\ p \in At(p)
  BY <1>2, Ancestors DEF At
<1>11. n.wh \intersect n.dir = {}
  BY <1>1, <1>9, <1>10 DEF Remove
<1>12. n.opq \subseteq n.dir
  BY <1>1 DEF Remove
<1> QED
  BY <1>7, <1>8, <1>11, <1>12 DEF LayerOK

LEMMA EmptyOK == LayerOK(Empty)
<1>1. NoVal \in [Leaf -> SUBSET Value] /\ \A x \in Leaf : NoVal[x] = {}
  BY DEF NoVal
<1> QED
  BY <1>1, NoContent DEF Empty, LayerOK, Layer, Sound, Closed

\* What the traversals do to one node of a tree
LEMMA CutOK ==
  ASSUME NEW a \in Plain, Sound(a), NEW p \in Node,
         NEW b, b = [dir |-> a.dir \ At(p), val |-> Without(a.val, At(p)), def |-> a.def \ At(p)]
  PROVE  b \in Plain /\ Sound(b)
<1>1. Closed(a.dir \ At(p))
  BY CutClosed DEF Plain, Sound
<1>2. /\ Without(a.val, At(p)) \in [Leaf -> SUBSET Value]
      /\ \A x \in Leaf : Without(a.val, At(p))[x] = IF x \in At(p) THEN {} ELSE a.val[x]
  <2>1. a.val \in [Leaf -> SUBSET Value]
    BY DEF Plain
  <2> QED
    BY <2>1, WithoutType
<1> QED
  BY <1>1, <1>2, NoContent DEF Plain, Sound

LEMMA StrippedOK ==
  ASSUME NEW a \in Plain, Sound(a), NEW p \in Node
  PROVE  Stripped(a, p) \in Plain /\ Sound(Stripped(a, p))
<1>1. Closed(Stripped(a, p).dir)
  BY StripClosed DEF Plain, Sound, Stripped
<1>2. /\ Without(a.val, {p}) \in [Leaf -> SUBSET Value]
      /\ \A x \in Leaf : Without(a.val, {p})[x] = IF x \in {p} THEN {} ELSE a.val[x]
  <2>1. a.val \in [Leaf -> SUBSET Value]
    BY DEF Plain
  <2> QED
    BY <2>1, WithoutType
<1>3. Stripped(a, p) \in Plain
  BY <1>2 DEF Stripped, Plain
<1>4. \A x \in Leaf : /\ Stripped(a, p).val[x] \in Content(x)
                      /\ Stripped(a, p).val[x] # {} => x \in Stripped(a, p).dir
  BY <1>2, NoContent DEF Stripped, Sound
<1>5. \A x \in Stripped(a, p).def : Stripped(a, p).val[x] # {}
  BY <1>2 DEF Stripped, Sound, Plain
<1> QED
  BY <1>1, <1>3, <1>4, <1>5 DEF Sound

LEMMA EmptiedOK ==
  ASSUME NEW c, LayerOK(c), NEW p \in Node
  PROVE  LayerOK(Emptied(c, p))
<1> DEFINE n == Emptied(c, p)
<1>1. c \in Layer /\ Sound(c) /\ c.wh \intersect c.dir = {} /\ c.opq \subseteq c.dir
  BY DEF LayerOK
<1>2. Closed(n.dir)
  BY <1>1, StripClosed DEF Layer, Sound, Emptied
<1>3. /\ Without(c.val, {p}) \in [Leaf -> SUBSET Value]
      /\ \A x \in Leaf : Without(c.val, {p})[x] = IF x \in {p} THEN {} ELSE c.val[x]
  <2>1. c.val \in [Leaf -> SUBSET Value]
    BY <1>1 DEF Layer
  <2> QED
    BY <2>1, WithoutType
<1>4. n \in Layer
  BY <1>1, <1>3 DEF Emptied, Layer
<1>5. \A x \in Leaf : n.val[x] \in Content(x) /\ (n.val[x] # {} => x \in n.dir)
  BY <1>1, <1>3, NoContent DEF Emptied, Sound
<1>6. \A x \in n.def : n.val[x] # {}
  BY <1>1, <1>3 DEF Emptied, Sound, Layer
<1>7. n.wh \intersect n.dir = {} /\ n.opq \subseteq n.dir
  BY <1>1 DEF Emptied
<1> QED
  BY <1>2, <1>4, <1>5, <1>6, <1>7 DEF LayerOK, Sound

----------------------------------------------------------------------------
(* Types *)

\* The copy made of the union; its type is not in TypeOK, but a value is copied from it.
CopyOK ==
  /\ tmp \in [val : [Leaf -> SUBSET Value], def : SUBSET Leaf]
  /\ \A x \in Leaf : tmp.val[x] \in Content(x)
  /\ \A x \in tmp.def : tmp.val[x] # {}

Config == active \in Plain /\ Sound(active) /\ LayerOK(changes) /\ CopyOK

Walk ==
  /\ DOMAIN op \subseteq Node /\ \A p \in DOMAIN op : op[p] \in Op
  /\ valued \subseteq DOMAIN op
  /\ at \in Node \union {Root} /\ done \subseteq Node \union {Root}
  /\ todo \subseteq DOMAIN op /\ bare \subseteq valued

Rest ==
  /\ mounted \in BOOLEAN
  /\ pc \in {"idle", "read", "merged", "copy", "delete", "clean", "wiped"}
  /\ seen \in Plain /\ Sound(seen) /\ before \in Plain /\ Sound(before)
  /\ edits \in 0..MaxEdits /\ others \in 0..MaxOthers

TypeInv == Config /\ Walk /\ Rest

LEMMA TypeInvTypeOK == TypeInv => TypeOK
<1> SUFFICES ASSUME TypeInv PROVE TypeOK
  OBVIOUS
<1>1. active \in Tree /\ seen \in Tree /\ before \in Tree
  BY Trees DEF TypeInv, Config, Rest
<1>2. changes \in Layer /\ Sound(changes)
  BY DEF TypeInv, Config, LayerOK
<1>3. [dir |-> changes.dir, val |-> changes.val, def |-> changes.def] \in Tree
  BY <1>2, Trees DEF Plain, Layer, Sound
<1>4. changes.wh \subseteq Node \ changes.dir /\ changes.opq \subseteq changes.dir
      /\ changes.whdef \subseteq Leaf
  BY <1>2 DEF TypeInv, Config, LayerOK, Layer
<1>5. tmp.def \subseteq Leaf
  BY DEF TypeInv, Config, CopyOK
<1> QED
  BY <1>1, <1>3, <1>4, <1>5 DEF TypeInv, Walk, Rest, TypeOK

LEMMA ViewSound == Config => View \in Plain /\ Sound(View)
  BY UnionSound DEF Config, View

LEMMA TypeInit == Init => TypeInv
<1> SUFFICES ASSUME Init PROVE TypeInv
  OBVIOUS
<1>1. active \in Plain /\ Sound(active)
  BY StartOK, Trees DEF Init
<1>2. NoVal \in [Leaf -> SUBSET Value] /\ \A x \in Leaf : NoVal[x] = {}
  BY DEF NoVal
<1>3. Config
  BY <1>1, <1>2, EmptyOK, NoContent DEF Init, Config, CopyOK
<1>4. Walk
  BY DEF Init, Walk
<1>5. Rest
  BY <1>1, BoundsOK DEF Init, Rest
<1> QED
  BY <1>3, <1>4, <1>5 DEF TypeInv

\* What a commit reads has types.
LEMMA ReadTypes ==
  ASSUME TypeInv
  PROVE  /\ DOMAIN Operations \subseteq Node /\ \A p \in DOMAIN Operations : Operations[p] \in Op
         /\ Valued \subseteq DOMAIN Operations
<1>1. changes \in Layer /\ Sound(changes) /\ active \in Plain
  BY DEF TypeInv, Config, LayerOK
<1>2. DOMAIN Operations = changes.dir \union Deleted \union Hidden
  BY DEF Operations
<1>3. changes.dir \union Deleted \union Hidden \subseteq Node
  BY <1>1 DEF Layer, Plain, Deleted, Hidden
<1>4. \A p \in DOMAIN Operations : Operations[p] \in Op
  BY <1>2 DEF Operations, Op
<1>5. Valued \subseteq DOMAIN Operations
  BY <1>1, <1>2 DEF Valued, Sound
<1> QED
  BY <1>2, <1>3, <1>4, <1>5

LEMMA TypeStep ==
  ASSUME TypeInv, [Next]_vars
  PROVE  TypeInv'
<1>0. active \in Plain /\ Sound(active) /\ LayerOK(changes) /\ CopyOK /\ Config /\ Walk /\ Rest
  BY DEF TypeInv, Config
<1>1. CASE Edit
  <2>1. LayerOK(changes')
    <3>1. ASSUME NEW p \in Node \ (Leaf \union View.dir), changes' = Mkdir(changes, active, p)
          PROVE  LayerOK(changes')
      BY <1>0, <3>1, MkdirOK
    <3>2. ASSUME NEW x \in Leaf, NEW V \in Content(x) \ {{}}, NEW d \in BOOLEAN,
                 changes' = Put(changes, active, x, V, d)
          PROVE  LayerOK(changes')
      BY <1>0, <3>2, PutOK
    <3>3. ASSUME NEW p \in View.dir, changes' = Remove(changes, active, p)
          PROVE  LayerOK(changes')
      BY <1>0, <3>3, RemoveOK DEF View
    <3> QED
      BY <1>1, <3>1, <3>2, <3>3 DEF Edit
  <2>2. active' = active /\ tmp' = tmp
    BY <1>1 DEF Edit
  <2>3. Config'
    BY <1>0, <2>1, <2>2 DEF Config, CopyOK
  <2>4. Walk'
    BY <1>0, <1>1 DEF Edit, walk, Walk
  <2>5. Rest'
    BY <1>0, <1>1, BoundsOK DEF Edit, past, Rest
  <2> QED
    BY <2>3, <2>4, <2>5 DEF TypeInv
<1>2. CASE Other
  <2>1. active' \in Plain /\ Sound(active')
    <3>1. ASSUME NEW p \in active.dir,
                 active' = [dir |-> active.dir \ At(p), val |-> Without(active.val, At(p)),
                            def |-> active.def \ At(p)]
          PROVE  active' \in Plain /\ Sound(active')
      <4>1. p \in Node
        BY <1>0 DEF Plain
      <4> QED
        BY <1>0, <3>1, <4>1, CutOK
    <3>2. ASSUME NEW x \in Leaf, NEW V \in Content(x) \ {{}}, NEW d \in BOOLEAN,
                 active' = [dir |-> active.dir \union Above[x] \union {x},
                            val |-> [active.val EXCEPT ![x] = V],
                            def |-> IF d THEN active.def \union {x} ELSE active.def \ {x}]
          PROVE  active' \in Plain /\ Sound(active')
      <4>1. x \in Node /\ V \in SUBSET Value
        BY LeavesOK DEF Content
      <4>2. Above[x] \union {x} \in SUBSET Node /\ Closed(Above[x] \union {x})
        BY <4>1, Ancestors
      <4>3. Closed(active.dir \union (Above[x] \union {x}))
        BY <1>0, <4>2, UnionClosed DEF Plain, Sound
      <4>4. Closed(active'.dir)
        <5>1. active'.dir = active.dir \union (Above[x] \union {x})
          BY <3>2
        <5> QED
          BY <4>3, <5>1
      <4>5. /\ active'.val \in [Leaf -> SUBSET Value]
            /\ \A y \in Leaf : active'.val[y] = IF y = x THEN V ELSE active.val[y]
        BY <1>0, <3>2, <4>1 DEF Plain
      <4>6. active' \in Plain
        BY <1>0, <3>2, <4>2, <4>5 DEF Plain
      <4>7. \A y \in Leaf : /\ active'.val[y] \in Content(y)
                            /\ active'.val[y] # {} => y \in active'.dir
        BY <1>0, <3>2, <4>5 DEF Sound
      <4>8. \A y \in active'.def : active'.val[y] # {}
        BY <1>0, <3>2, <4>5, <4>6 DEF Sound, Plain
      <4> QED
        BY <4>4, <4>6, <4>7, <4>8 DEF Sound
    <3> QED
      BY <1>2, <3>1, <3>2 DEF Other
  <2>2. changes' = changes /\ tmp' = tmp
    BY <1>2 DEF Other
  <2>3. Config'
    BY <1>0, <2>1, <2>2 DEF Config, CopyOK
  <2>4. Walk'
    BY <1>0, <1>2 DEF Other, walk, Walk
  <2>5. Rest'
    BY <1>0, <1>2, BoundsOK DEF Other, past, Rest
  <2> QED
    BY <2>3, <2>4, <2>5 DEF TypeInv
<1>3. CASE Read
  <2>1. Config'
    BY <1>0, <1>3 DEF Read, state, Config, CopyOK
  <2>2. Walk'
    BY <1>3, ReadTypes DEF Read, Walk, TypeInv
  <2>3. Rest'
    BY <1>0, <1>3, ViewSound DEF Read, state, count, Rest
  <2> QED
    BY <2>1, <2>2, <2>3 DEF TypeInv
<1>4. ASSUME NEW n \in Node \union {Root}, Merge(n) PROVE TypeInv'
  <2> DEFINE copy == [x \in Leaf |-> IF x \in Within(n) THEN View.val[x] ELSE tmp.val[x]]
  <2>1. View \in Plain /\ Sound(View)
    BY <1>0, ViewSound
  <2>2. tmp' = [val |-> copy, def |-> (View.def \intersect Within(n)) \union (tmp.def \ Within(n))]
    BY <1>4 DEF Merge
  <2>3. copy \in [Leaf -> SUBSET Value]
    BY <1>0, <2>1 DEF CopyOK, Plain
  <2>4. CopyOK'
    BY <1>0, <2>1, <2>2, <2>3 DEF CopyOK, Plain, Sound
  <2>5. Config'
    BY <1>0, <1>4, <2>4 DEF Merge, Config
  <2>6. Walk'
    BY <1>0, <1>4 DEF Merge, Walk
  <2>7. Rest'
    BY <1>0, <1>4 DEF Merge, past, count, Rest
  <2> QED
    BY <2>5, <2>6, <2>7 DEF TypeInv
<1>5. CASE Umount
  <2>1. Config'
    BY <1>0, <1>5 DEF Umount, Config, CopyOK
  <2>2. Walk'
    BY <1>0, <1>5 DEF Umount, Walk
  <2>3. Rest'
    BY <1>0, <1>5 DEF Umount, past, count, Rest
  <2> QED
    BY <2>1, <2>2, <2>3 DEF TypeInv
<1>6. ASSUME NEW p \in Node, CopyDir(p) PROVE TypeInv'
  <2>1. Above[p] \union {p} \in SUBSET Node /\ Closed(Above[p] \union {p})
    BY Ancestors
  <2>2. Closed(active.dir \union (Above[p] \union {p}))
    BY <1>0, <2>1, UnionClosed DEF Plain, Sound
  <2>3. /\ active'.dir = IF op[p] = "DEL" THEN active.dir ELSE active.dir \union (Above[p] \union {p})
        /\ active'.val = active.val /\ active'.def \subseteq active.def
        /\ active' = [dir |-> active'.dir, val |-> active'.val, def |-> active'.def]
    BY <1>0, <1>6 DEF CopyDir, Plain
  <2>4. active'.dir \in SUBSET Node /\ Closed(active'.dir)
    BY <1>0, <2>1, <2>2, <2>3 DEF Plain, Sound
  <2>5. active' \in Plain
    BY <1>0, <2>3, <2>4 DEF Plain
  <2>6. Sound(active')
    BY <1>0, <2>3, <2>4 DEF Sound
  <2>7. Config'
    BY <1>0, <1>6, <2>5, <2>6 DEF CopyDir, Config, CopyOK
  <2>8. Walk'
    BY <1>0, <1>6 DEF CopyDir, Walk
  <2>9. Rest'
    BY <1>0, <1>6 DEF CopyDir, past, count, Rest
  <2> QED
    BY <2>7, <2>8, <2>9 DEF TypeInv
<1>7. CASE CopyValue
  <2> DEFINE val == [x \in Leaf |-> IF x \in bare \intersect active.dir /\ tmp.val[x] # {}
                                    THEN tmp.val[x] ELSE active.val[x]]
             def == active.def \union (bare \intersect active.dir \intersect tmp.def)
  <2>1. active' = [dir |-> active.dir, val |-> val, def |-> def]
    BY <1>0, <1>7 DEF CopyValue, Plain
  <2>2. val \in [Leaf -> SUBSET Value] /\ def \in SUBSET Leaf
    BY <1>0 DEF CopyOK, Plain
  <2>3. active' \in Plain
    BY <1>0, <2>1, <2>2 DEF Plain
  <2>4. \A x \in Leaf : active'.val[x] \in Content(x) /\ (active'.val[x] # {} => x \in active'.dir)
    BY <1>0, <2>1 DEF CopyOK, Sound
  <2>5. \A x \in active'.def : active'.val[x] # {}
    BY <1>0, <2>1, <2>2 DEF CopyOK, Sound
  <2>6. Sound(active')
    BY <1>0, <2>1, <2>4, <2>5 DEF Sound
  <2>7. Config'
    BY <1>0, <1>7, <2>3, <2>6 DEF CopyValue, Config, CopyOK
  <2>8. Walk'
    BY <1>0, <1>7 DEF CopyValue, Walk
  <2>9. Rest'
    BY <1>0, <1>7 DEF CopyValue, past, count, Rest
  <2> QED
    BY <2>7, <2>8, <2>9 DEF TypeInv
<1>8. CASE Copied
  <2>1. Config'
    BY <1>0, <1>8 DEF Copied, state, Config, CopyOK
  <2>2. Walk'
    BY <1>0, <1>8 DEF Copied, Walk
  <2>3. Rest'
    BY <1>0, <1>8 DEF Copied, state, past, count, Rest
  <2> QED
    BY <2>1, <2>2, <2>3 DEF TypeInv
<1>9. ASSUME NEW p \in Node, DeleteNode(p) PROVE TypeInv'
  <2>1. CASE op[p] = "DEL"
    <3>1. active' = Stripped(active, p)
      BY <1>9, <2>1 DEF DeleteNode
    <3>2. active' \in Plain /\ Sound(active')
      BY <1>0, <3>1, StrippedOK
    <3>3. changes' = changes
      <4>1. changes \in Layer /\ (p \in changes.dir => p \notin changes.wh)
        BY <1>0 DEF LayerOK
      <4>2. changes' = [changes EXCEPT !.wh = IF p \in changes.dir THEN changes.wh \ {p}
                                                                   ELSE changes.wh]
        BY <1>9, <2>1 DEF DeleteNode
      <4>3. (IF p \in changes.dir THEN changes.wh \ {p} ELSE changes.wh) = changes.wh
        BY <4>1
      <4> QED
        BY <4>1, <4>2, <4>3 DEF Layer
    <3>4. Config'
      BY <1>0, <1>9, <3>2, <3>3 DEF DeleteNode, Config, CopyOK
    <3> QED
      BY <1>0, <1>9, <3>4 DEF DeleteNode, TypeInv, Walk, Rest, past, count
  <2>2. CASE op[p] # "DEL"
    <3>1. changes' = Emptied(changes, p) /\ active' = active
      BY <1>9, <2>2 DEF DeleteNode
    <3>2. LayerOK(changes')
      BY <1>0, <3>1, EmptiedOK
    <3>3. Config'
      BY <1>0, <1>9, <3>1, <3>2 DEF DeleteNode, Config, CopyOK
    <3> QED
      BY <1>0, <1>9, <3>3 DEF DeleteNode, TypeInv, Walk, Rest, past, count
  <2> QED
    BY <2>1, <2>2
<1>10. CASE Mount
  BY <1>0, <1>10 DEF Mount, TypeInv, Config, CopyOK, Walk, Rest, past, count
<1>11. CASE CleanUmount
  <2>1. Config'
    BY <1>0, <1>11 DEF CleanUmount, Config, CopyOK
  <2>2. Walk'
    BY <1>0, <1>11 DEF CleanUmount, Walk
  <2>3. Rest'
    BY <1>0, <1>11 DEF CleanUmount, past, count, Rest
  <2> QED
    BY <2>1, <2>2, <2>3 DEF TypeInv
<1>12. ASSUME NEW p \in Node, CleanNode(p) PROVE TypeInv'
  <2>1. active' = [dir |-> active.dir \ At(p), val |-> Without(active.val, At(p)),
                   def |-> active.def \ At(p)]
    BY <1>12 DEF CleanNode
  <2>2. active' \in Plain /\ Sound(active')
    BY <1>0, <2>1, CutOK
  <2>3. Config'
    BY <1>0, <1>12, <2>2 DEF CleanNode, Config, CopyOK
  <2> QED
    BY <1>0, <1>12, <2>3 DEF CleanNode, TypeInv, Walk, Rest, past, count
<1>13. CASE Wipe
  <2>1. Config'
    BY <1>0, <1>13, EmptyOK DEF Wipe, Config, CopyOK
  <2> QED
    BY <1>0, <1>13, <2>1 DEF Wipe, TypeInv, Walk, Rest, walk, past, count
<1>14. CASE Remount
  BY <1>0, <1>14 DEF Remount, Forget, TypeInv, Config, CopyOK, Walk, Rest, past, count
<1>15. CASE Stop
  BY <1>0, <1>15 DEF Stop, Forget, state, TypeInv, Config, CopyOK, Walk, Rest, past, count
<1>16. CASE Discard
  <2>1. Config'
    BY <1>0, <1>16, EmptyOK DEF Discard, Config, CopyOK
  <2> QED
    BY <1>0, <1>16, <2>1 DEF Discard, TypeInv, Walk, Rest, walk, past, count
<1>17. CASE UNCHANGED vars
  BY <1>0, <1>17 DEF vars, state, walk, TypeInv, Config, CopyOK, Walk, Rest, past, count
<1> QED
  BY <1>1, <1>2, <1>3, <1>4, <1>5, <1>6, <1>7, <1>8, <1>9, <1>10, <1>11, <1>12, <1>13, <1>14,
     <1>15, <1>16, <1>17 DEF Next

\* The configurations stay trees, with values in leaves that are there, whatever is edited
\* and committed and wherever a commit dies; and the layer of changes stays one.
THEOREM TypeInvariant == Spec => []TypeOK
  BY TypeInit, TypeStep, TypeInvTypeOK, PTL DEF Spec

----------------------------------------------------------------------------
(* The layer of changes, whoever edits and whatever a commit has left of it *)

\* A leaf is made with its value. What lies in a directory made anew was made anew, and a
\* white-out lies in directories the changes have.
Layered(c) ==
  /\ \A x \in Leaf \intersect c.dir : c.val[x] # {}
  /\ \A x \in c.whdef : c.val[x] # {}
  /\ \A r \in c.dir : Above[r] \intersect c.opq # {} => r \in c.opq
  /\ \A w \in c.wh : Above[w] \subseteq c.dir

LEMMA EmptyLayered == Layered(Empty)
  BY DEF Layered, Empty

\* A directory made: not a leaf, or a leaf whose value is written next
LEMMA MkdirLayered ==
  ASSUME NEW c, LayerOK(c), Layered(c), NEW a \in Plain, Sound(a), NEW p \in Node
  PROVE  LET m == Mkdir(c, a, p) IN
         /\ \A x \in (Leaf \intersect m.dir) \ {p} : m.val[x] # {}
         /\ \A x \in m.whdef : m.val[x] # {}
         /\ \A r \in m.dir : Above[r] \intersect m.opq # {} => r \in m.opq
         /\ \A w \in m.wh : Above[w] \subseteq m.dir
<1> DEFINE path == Above[p] \union {p}
           new == path \ Union(c, a).dir
           m == Mkdir(c, a, p)
<1>1. /\ m.dir = c.dir \union path /\ m.opq = c.opq \union new /\ m.wh = c.wh \ new
      /\ m.val = c.val /\ m.whdef = c.whdef
  BY DEF Mkdir, LayerOK, Layer
<1>2. Above[p] \intersect Leaf = {}
  BY LeavesOK
<1>3. ASSUME NEW r \in m.dir, NEW q \in Above[r], q \in m.opq PROVE r \in m.opq
  <2>1. r \in Node /\ q \in Node /\ Above[q] \subseteq Above[r]
    BY <1>1, Ancestors DEF LayerOK, Layer, Closed
  <2>2. CASE r \in Union(c, a).dir
    <3>1. q \in Union(c, a).dir
      BY <2>2, UnionSound DEF Sound, Closed
    <3>2. q \in c.opq
      BY <1>1, <1>3, <3>1
    <3>3. r \in c.dir
      BY <1>3, <2>2, <3>2 DEF Union, Covered
    <3> QED
      BY <1>1, <1>3, <3>2, <3>3 DEF Layered
  <2>3. CASE r \notin Union(c, a).dir
    BY <1>1, <2>3 DEF Union
  <2> QED
    BY <2>2, <2>3
<1> QED
  BY <1>1, <1>2, <1>3 DEF Layered

LEMMA PutLayered ==
  ASSUME NEW c, LayerOK(c), Layered(c), NEW a \in Plain, Sound(a), NEW x \in Leaf,
         NEW V \in Content(x) \ {{}}, NEW d \in BOOLEAN
  PROVE  Layered(Put(c, a, x, V, d))
<1> DEFINE m == Mkdir(c, a, x)
           n == Put(c, a, x, V, d)
<1>1. x \in Node
  BY LeavesOK
<1>2. LayerOK(m) /\ x \in m.dir
  BY <1>1, MkdirOK
<1>3. /\ \A y \in (Leaf \intersect m.dir) \ {x} : m.val[y] # {}
      /\ \A y \in m.whdef : m.val[y] # {}
      /\ \A r \in m.dir : Above[r] \intersect m.opq # {} => r \in m.opq
      /\ \A w \in m.wh : Above[w] \subseteq m.dir
  BY <1>1, MkdirLayered
<1>4. /\ n.dir = m.dir /\ n.wh = m.wh /\ n.opq = m.opq /\ n.val = [m.val EXCEPT ![x] = V]
      /\ n.whdef \subseteq m.whdef \union {x}
  BY <1>2 DEF Put, LayerOK, Layer
<1>5. \A y \in Leaf : n.val[y] = IF y = x THEN V ELSE m.val[y]
  BY <1>2, <1>4 DEF LayerOK, Layer
<1>6. n.whdef \subseteq Leaf
  BY <1>2, <1>4 DEF LayerOK, Layer
<1> QED
  BY <1>3, <1>4, <1>5, <1>6 DEF Layered

LEMMA RemoveLayered ==
  ASSUME NEW c, LayerOK(c), Layered(c), NEW a \in Plain, Sound(a), NEW p \in Union(c, a).dir
  PROVE  Layered(Remove(c, a, p))
<1> DEFINE n == Remove(c, a, p)
<1>1. p \in Node
  BY UnionSound DEF Plain
<1>2. /\ n.dir = (c.dir \ At(p)) \union Above[p] /\ n.opq = c.opq \ At(p)
      /\ n.whdef = c.whdef \ At(p) /\ n.wh \subseteq (c.wh \ At(p)) \union {p}
      /\ \A x \in Leaf : n.val[x] = IF x \in At(p) THEN {} ELSE c.val[x]
  BY DEF Remove, Without
<1>3. Above[p] \intersect Leaf = {}
  BY <1>1, LeavesOK
<1>4. ASSUME NEW r \in n.dir, NEW q \in Above[r], q \in n.opq PROVE r \in n.opq
  <2>1. q \in c.opq
    BY <1>2, <1>4
  <2>2. r \in c.dir
    <3> SUFFICES ASSUME r \in Above[p] PROVE r \in c.dir
      BY <1>2
    <3>1. Union(c, a).dir \in SUBSET Node /\ r \in Union(c, a).dir
      BY <1>1, UnionSound DEF Plain, Sound, Closed
    <3> QED
      BY <1>4, <2>1, <3>1 DEF Union, Covered
  <2>3. r \in c.opq
    BY <1>4, <2>1, <2>2 DEF Layered
  <2>4. r \notin At(p)
    BY <1>1, <1>2, <1>4, Ancestors DEF At, Below, Closed
  <2> QED
    BY <1>2, <2>3, <2>4
<1>5. ASSUME NEW w \in n.wh PROVE Above[w] \subseteq n.dir
  <2>1. CASE w = p
    BY <1>2, <2>1
  <2>2. CASE w \in c.wh \ At(p)
    <3>1. Above[w] \subseteq c.dir /\ w \in Node
      BY <2>2 DEF Layered, LayerOK, Layer
    <3>2. Above[w] \intersect At(p) = {}
      <4> SUFFICES ASSUME NEW q \in Above[w], q \in At(p) PROVE FALSE
        OBVIOUS
      <4>1. p \in Above[w]
        BY <3>1, Ancestors DEF At, Below, Closed
      <4> QED
        BY <2>2, <3>1, <4>1 DEF At, Below
    <3> QED
      BY <1>2, <3>1, <3>2
  <2> QED
    BY <1>2, <2>1, <2>2
<1>6. \A x \in Leaf \intersect n.dir : n.val[x] # {}
  BY <1>2, <1>3 DEF Layered
<1>7. \A x \in n.whdef : n.val[x] # {}
  BY <1>2 DEF Layered, LayerOK, Layer
<1> QED
  BY <1>4, <1>5, <1>6, <1>7 DEF Layered

\* A commit empties a directory when all below it has gone from the changes.
LEMMA EmptiedLayered ==
  ASSUME NEW c, LayerOK(c), Layered(c), NEW p \in Node, Below(p) \intersect c.dir = {}
  PROVE  Layered(Emptied(c, p)) /\ Emptied(c, p).dir = c.dir \ {p}
<1> DEFINE n == Emptied(c, p)
<1>1. /\ n.dir = c.dir \ {p} /\ n.opq = c.opq \ {p} /\ n.whdef = c.whdef \ {p}
      /\ n.wh = {q \in c.wh : ~Inside(q, p)}
      /\ \A x \in Leaf : n.val[x] = IF x = p THEN {} ELSE c.val[x]
  BY DEF Emptied, Without
<1>2. ASSUME NEW w \in n.wh PROVE Above[w] \subseteq n.dir
  <2>1. w \in c.wh /\ w \in Node /\ Above[w] \subseteq c.dir /\ ~Inside(w, p)
    BY <1>1 DEF Layered, LayerOK, Layer
  <2>2. ASSUME p \in Above[w] PROVE FALSE
    <3>1. Above[p] \subseteq Above[w]
      BY <2>1, <2>2, Ancestors DEF Closed
    <3>2. PICK q \in Above[w] : q \notin Above[p] \union {p}
      BY <2>1, <2>2, <3>1 DEF Inside
    <3>3. q \in Below(p)
      BY <2>1, <2>2, <3>2, NodesOK DEF Below
    <3> QED
      BY <2>1, <3>3
  <2> QED
    BY <1>1, <2>1, <2>2
<1>3. n.whdef \subseteq Leaf /\ \A x \in n.whdef : n.val[x] # {}
  BY <1>1 DEF Layered, LayerOK, Layer
<1> QED
  BY <1>1, <1>2, <1>3 DEF Layered

----------------------------------------------------------------------------
(* What a commit reads *)

LEMMA TopDeleted ==
  ASSUME TypeInv, Layered(changes), NEW p \in active.dir \ View.dir
  PROVE  \E q \in DOMAIN Operations : Operations[q] = "DEL" /\ p \in At(q)
<1>1. /\ active \in Plain /\ Sound(active) /\ changes \in Layer
      /\ changes.wh \intersect changes.dir = {} /\ changes.opq \subseteq changes.dir
      /\ p \in Node
  BY DEF TypeInv, Config, LayerOK, Plain
<1>2. DOMAIN Operations = changes.dir \union Deleted \union Hidden
      /\ \A q \in DOMAIN Operations : q \notin changes.dir => Operations[q] = "DEL"
  BY DEF Operations
<1>3. p \notin changes.dir /\ Covered(changes, p)
  BY DEF View, Union
<1>4. CASE (Above[p] \union {p}) \intersect changes.wh # {}
  <2>1. PICK w \in Above[p] \union {p} : w \in changes.wh
    BY <1>4
  <2>2. w \in Deleted
    BY <2>1 DEF Deleted
  <2>3. p \in At(w)
    BY <1>1, <2>1 DEF At, Below
  <2> QED
    BY <1>1, <1>2, <2>1, <2>2, <2>3
<1>5. CASE Above[p] \intersect changes.opq # {}
  <2> DEFINE S == {r \in Above[p] \union {p} : r \notin changes.dir
                                               /\ Above[r] \intersect changes.opq # {}}
  <2>1. S \in SUBSET Node /\ p \in S
    BY <1>1, <1>3, <1>5, Ancestors
  <2>2. PICK t \in S : Above[t] \intersect S = {}
    BY <2>1, Topmost
  <2>3. PICK u \in Above[t] : Inside(t, u)
    BY <2>1, Parent
  <2>4. u \in changes.opq
    <3>1. CASE Above[u] \intersect changes.opq # {}
      <4>1. u \in Above[p]
        BY <1>1, <2>3, Ancestors DEF Closed
      <4>2. u \in changes.dir
        BY <2>2, <3>1, <4>1
      <4> QED
        BY <3>1, <4>2 DEF Layered
    <3>2. CASE Above[u] \intersect changes.opq = {}
      BY <2>3, <3>2 DEF Inside
    <3> QED
      BY <3>1, <3>2
  <2>5. t \in active.dir \ changes.dir
    BY <1>1 DEF Sound, Closed
  <2>6. t \in Hidden
    BY <2>3, <2>4, <2>5 DEF Hidden
  <2>7. p \in At(t)
    BY <1>1 DEF At, Below
  <2> QED
    BY <1>2, <2>5, <2>6, <2>7
<1> QED
  BY <1>3, <1>4, <1>5 DEF Covered

LEMMA ReadTells ==
  ASSUME TypeInv, Layered(changes)
  PROVE  /\ View.dir \ active.dir \subseteq changes.dir
         /\ changes.dir \subseteq DOMAIN Operations
         /\ \A p \in DOMAIN Operations :
              /\ Operations[p] = "DEL" <=> p \notin changes.dir
              /\ Operations[p] = "NO_OP" => p \in active.dir
         /\ changes.wh \intersect View.dir = {}
         /\ \A x \in Valued : /\ x \in Leaf
                              /\ Operations[x] # "DEL" => /\ changes.val[x] # {}
                                                          /\ View.val[x] = changes.val[x]
         /\ \A x \in (Leaf \intersect View.dir) \ Valued :
              active.val[x] = View.val[x] /\ (x \in active.def <=> x \in View.def)
<1>1. /\ active \in Plain /\ Sound(active) /\ changes \in Layer /\ Sound(changes)
      /\ changes.wh \intersect changes.dir = {} /\ changes.opq \subseteq changes.dir
  BY DEF TypeInv, Config, LayerOK
<1>2. DOMAIN Operations = changes.dir \union Deleted \union Hidden
      /\ \A q \in DOMAIN Operations :
           Operations[q] = IF q \notin changes.dir THEN "DEL"
                           ELSE IF q \in active.dir THEN "NO_OP" ELSE "CREATE"
  BY DEF Operations
<1>3. View.dir = changes.dir \union {p \in active.dir : ~Covered(changes, p)}
      /\ \A x \in Leaf : View.val[x] = IF changes.val[x] # {} THEN changes.val[x]
                                      ELSE IF FileCovered(changes, x) THEN {} ELSE active.val[x]
  BY DEF View, Union
<1>4. changes.wh \intersect View.dir = {}
  BY <1>1, <1>3 DEF Covered
<1>5. ASSUME NEW x \in Valued
      PROVE  /\ x \in Leaf
             /\ Operations[x] # "DEL" => changes.val[x] # {} /\ View.val[x] = changes.val[x]
  <2>1. x \in Leaf /\ x \in DOMAIN Operations
    BY ReadTypes DEF Valued
  <2>2. Operations[x] # "DEL" => x \in changes.dir
    BY <1>2, <2>1
  <2> QED
    BY <1>3, <2>1, <2>2 DEF Layered
<1>6. ASSUME NEW x \in (Leaf \intersect View.dir) \ Valued
      PROVE  active.val[x] = View.val[x] /\ (x \in active.def <=> x \in View.def)
  <2>1. changes.val[x] = {}
    BY <1>6 DEF Valued
  <2>2. x \notin changes.dir /\ x \notin changes.whdef /\ x \notin changes.def
    BY <1>1, <1>6, <2>1 DEF Layered, Sound
  <2>3. ~FileCovered(changes, x)
    BY <1>1, <1>3, <1>6, <2>2 DEF FileCovered
  <2>4. View.def = changes.def \union {y \in active.def : ~FileCovered(changes, y)
                                                         /\ y \notin changes.whdef}
    BY DEF View, Union
  <2> QED
    BY <1>3, <1>6, <2>1, <2>2, <2>3, <2>4
<1> QED
  BY <1>2, <1>3, <1>4, <1>5, <1>6

\* The operations of a leaf's values tell the values seen, and which of them are not new.
LEMMA ValuesTell ==
  ASSUME NEW x
  PROVE  LET o == ValueOperations(x) IN
         /\ {v \in DOMAIN o : o[v] # "DEL"} = View.val[x]
         /\ {v \in DOMAIN o : o[v] \in {"DEL", "NO_OP"}} \subseteq active.val[x]
<1> DEFINE was == active.val[x]
           new == View.val[x]
           o == ValueOperations(x)
<1>1. CASE x \in Multi
  <2>1. o = [v \in was \union new |-> IF v \notin new THEN "DEL"
                                      ELSE IF v \notin was THEN "CREATE" ELSE "NO_OP"]
    BY <1>1 DEF ValueOperations
  <2> QED
    BY <2>1
<1>2. CASE x \notin Multi /\ new = {}
  <2>1. o = [v \in was |-> "DEL"]
    BY <1>2 DEF ValueOperations
  <2> QED
    BY <1>2, <2>1
<1>3. CASE x \notin Multi /\ new # {}
  <2>1. o = [v \in new |-> IF was = {} THEN "CREATE"
                           ELSE IF was = new THEN "NO_OP" ELSE "SET"]
    BY <1>3 DEF ValueOperations
  <2> QED
    BY <2>1
<1> QED
  BY <1>1, <1>2, <1>3

----------------------------------------------------------------------------
(* What a commit may do to the active configuration *)

\* What the operations say of a node
Known ==
  \A p \in DOMAIN op : /\ op[p] = "DEL" => p \notin seen.dir
                       /\ op[p] # "DEL" => p \in seen.dir
                       /\ op[p] = "CREATE" => p \notin before.dir

Between ==
  /\ before.dir \intersect seen.dir \subseteq active.dir
  /\ active.dir \subseteq before.dir \union seen.dir
  /\ \A x \in Leaf : active.val[x] \in {before.val[x], seen.val[x]}

\* While the changes are there, the union shows nothing the session has not seen.
Faithful == /\ View.dir \subseteq seen.dir
            /\ \A x \in Leaf : View.val[x] \in {{}, seen.val[x]}

Copying ==
  /\ pc \in {"merged", "copy"} => \A x \in Leaf \intersect Within(at) : tmp.val[x] \in {{}, seen.val[x]}
  /\ pc = "copy" => todo \subseteq Within(at) /\ bare \subseteq Within(at)
  /\ pc = "delete" => \A p \in todo : op[p] # "NO_OP"
  /\ pc = "clean" => \A p \in todo : op[p] = "DEL"
  /\ pc # "copy" => bare = {}

ChangeInv ==
  pc # "idle" => Known /\ Between /\ Copying /\ (pc # "wiped" => Faithful)

\* A commit reads each node's operation as the union and the active configuration say.
LEMMA ReadKnown ==
  ASSUME TypeInv, NEW p \in DOMAIN Operations
  PROVE  /\ Operations[p] = "DEL" => p \notin View.dir
         /\ Operations[p] # "DEL" => p \in View.dir
         /\ Operations[p] = "CREATE" => p \notin active.dir
<1>1. /\ p \in changes.dir \union Deleted \union Hidden
      /\ Operations[p] = IF p \notin changes.dir THEN "DEL"
                         ELSE IF p \in active.dir THEN "NO_OP" ELSE "CREATE"
  BY DEF Operations
<1>2. CASE p \in changes.dir
  BY <1>1, <1>2 DEF View, Union
<1>3. CASE p \notin changes.dir
  <2>1. ASSUME p \in Deleted PROVE Covered(changes, p)
    <3>1. PICK w \in changes.wh : p \in {w} \union (Below(w) \intersect active.dir)
      BY <2>1 DEF Deleted
    <3> QED
      BY <3>1 DEF Below, Covered
  <2>2. ASSUME p \in Hidden PROVE Covered(changes, p)
    BY <2>2 DEF Hidden, Inside, Covered
  <2>3. Covered(changes, p)
    BY <1>1, <1>3, <2>1, <2>2
  <2> QED
    BY <1>1, <1>3, <2>3 DEF View, Union
<1> QED
  BY <1>2, <1>3

\* Where the active configuration has no more than before, and nothing is uncovered, the
\* union shows no more.
LEMMA Smaller ==
  ASSUME NEW c \in Layer, NEW a \in Plain, NEW b \in Plain, b.dir \subseteq a.dir,
         \A x \in Leaf : b.val[x] \in {{}, a.val[x]}
  PROVE  /\ Union(c, b).dir \subseteq Union(c, a).dir
         /\ \A x \in Leaf : Union(c, b).val[x] \in {{}, Union(c, a).val[x]}
  BY DEF Union, Layer, Plain

\* Emptying a directory uncovers nothing but what lies below it.
LEMMA EmptiedCovers ==
  ASSUME NEW c, NEW p \in Node, NEW q \in Node \ At(p)
  PROVE  Covered(Emptied(c, p), q) = Covered(c, q)
<1>1. p \notin Above[q]
  BY DEF At, Below
<1>2. \A w \in Above[q] \union {q} : ~Inside(w, p)
  BY <1>1, Ancestors DEF Inside, Closed
<1>3. Emptied(c, p).wh = {w \in c.wh : ~Inside(w, p)} /\ Emptied(c, p).opq = c.opq \ {p}
  BY DEF Emptied
<1>4. (Above[q] \union {q}) \intersect Emptied(c, p).wh = (Above[q] \union {q}) \intersect c.wh
  BY <1>2, <1>3
<1>5. Above[q] \intersect Emptied(c, p).opq = Above[q] \intersect c.opq
  BY <1>1, <1>3
<1> QED
  BY <1>4, <1>5 DEF Covered

LEMMA ChangeStep ==
  ASSUME TypeInv, TypeInv', ChangeInv, [Next]_vars
  PROVE  ChangeInv'
<1>0. /\ active \in Plain /\ Sound(active) /\ LayerOK(changes) /\ changes \in Layer /\ CopyOK
      /\ Walk /\ seen \in Plain /\ Sound(seen) /\ before \in Plain /\ Sound(before)
      /\ active' \in Plain
  BY DEF TypeInv, Config, Rest, LayerOK
<1> DEFINE Cut(P) == /\ active'.dir \subseteq active.dir
                     /\ active.dir \ active'.dir \subseteq P
                     /\ \A x \in Leaf : IF x \in P THEN active'.val[x] \in {{}, active.val[x]}
                                        ELSE active'.val[x] = active.val[x]
\* taking away what the session has deleted
<1>1. ASSUME NEW P, pc # "idle", pc # "wiped", P \intersect seen.dir = {}, Cut(P),
             changes' = changes, seen' = seen, before' = before
      PROVE  Between' /\ Faithful'
  <2>1. \A x \in Leaf \intersect P : seen.val[x] = {}
    BY <1>0, <1>1 DEF Sound
  <2>2. Between'
    BY <1>1, <2>1 DEF ChangeInv, Between
  <2>3. \A x \in Leaf : active'.val[x] \in {{}, active.val[x]}
    BY <1>1
  <2>4. /\ View'.dir \subseteq View.dir
        /\ \A x \in Leaf : View'.val[x] \in {{}, View.val[x]}
    BY <1>0, <1>1, <2>3, Smaller DEF View
  <2>5. Faithful'
    BY <1>1, <2>4 DEF ChangeInv, Faithful
  <2> QED
    BY <2>2, <2>5
<1>2. ASSUME NEW n \in Node \union {Root}, Merge(n) PROVE ChangeInv'
  <2>1. pc = "read" /\ pc' = "merged" /\ UNCHANGED <<active, changes, op, bare, past>> /\ at' = n
    BY <1>2 DEF Merge
  <2>2. \A x \in Leaf \intersect Within(n) : tmp'.val[x] = View.val[x]
    BY <1>2 DEF Merge
  <2>3. Copying'
    BY <2>1, <2>2 DEF Copying, ChangeInv, Faithful, past, Within
  <2> QED
    BY <2>1, <2>3 DEF ChangeInv, Known, Between, Faithful, past, View
<1>3. CASE Read
  <2>1. pc' = "read" /\ op' = Operations /\ seen' = View /\ before' = active /\ UNCHANGED state
      /\ bare' = {}
    BY <1>3 DEF Read
  <2>2. Known'
    BY <2>1, ReadKnown DEF Known
  <2>3. Between'
    BY <2>1 DEF Between, state, View, Union
  <2>4. Faithful' /\ Copying'
    BY <2>1 DEF Faithful, Copying, state, View
  <2> QED
    BY <2>2, <2>3, <2>4 DEF ChangeInv
<1>4. CASE Umount
  <2>1. /\ pc = "merged" /\ pc' = "copy" /\ UNCHANGED <<active, changes, tmp, op, at, bare, past>>
        /\ todo' = Within(at) \intersect DOMAIN op
    BY <1>4 DEF Umount
  <2> QED
    BY <2>1 DEF ChangeInv, Known, Between, Faithful, Copying, past, View
<1>5. ASSUME NEW p \in Node, CopyDir(p) PROVE ChangeInv'
  <2>1. /\ pc = "copy" /\ pc' = "copy" /\ UNCHANGED <<changes, tmp, op, at, past>>
        /\ p \in todo /\ todo' = todo \ {p} /\ bare' = {p} \intersect valued
    BY <1>5 DEF CopyDir
  <2>2. /\ active'.dir = IF op[p] = "DEL" THEN active.dir ELSE active.dir \union Above[p] \union {p}
        /\ active'.val = active.val
    BY <1>0, <1>5 DEF CopyDir, Plain
  <2>3. p \in DOMAIN op
    BY <1>0, <2>1 DEF Walk
  <2>4. op[p] # "DEL" => Above[p] \union {p} \subseteq seen.dir
    BY <1>0, <2>1, <2>3 DEF ChangeInv, Known, Sound, Closed
  <2>5. Between'
    BY <2>1, <2>2, <2>4 DEF ChangeInv, Between, past
  <2>6. Faithful'
    <3>1. View'.dir \subseteq View.dir \union seen.dir
      BY <2>1, <2>2, <2>4 DEF View, Union, Covered
    <3>2. \A x \in Leaf : View'.val[x] = View.val[x]
      BY <2>1, <2>2 DEF View, Union, FileCovered, Covered
    <3> QED
      BY <2>1, <3>1, <3>2 DEF ChangeInv, Faithful, past
  <2>7. Copying' /\ Known'
    BY <2>1 DEF ChangeInv, Copying, Known, past, Within
  <2> QED
    BY <2>1, <2>5, <2>6, <2>7 DEF ChangeInv
<1>6. CASE CopyValue
  <2>1. /\ pc = "copy" /\ pc' = "copy" /\ UNCHANGED <<changes, tmp, op, at, todo, past>>
        /\ bare' = {}
    BY <1>6 DEF CopyValue
  <2>2. /\ active'.dir = active.dir
        /\ \A x \in Leaf : active'.val[x] = IF x \in bare \intersect active.dir /\ tmp.val[x] # {}
                                           THEN tmp.val[x] ELSE active.val[x]
    BY <1>0, <1>6 DEF CopyValue, Plain
  <2>3. \A x \in Leaf : active'.val[x] \in {active.val[x], seen.val[x]}
    BY <2>1, <2>2 DEF ChangeInv, Copying
  <2>4. Between'
    BY <2>1, <2>2, <2>3 DEF ChangeInv, Between, past
  <2>5. Faithful'
    <3>1. View'.dir = View.dir
      BY <2>1, <2>2 DEF View, Union, Covered
    <3>2. \A x \in Leaf : View'.val[x] \in {{}, View.val[x], seen.val[x]}
      BY <2>1, <2>3 DEF View, Union, FileCovered, Covered
    <3> QED
      BY <2>1, <3>1, <3>2 DEF ChangeInv, Faithful, past
  <2>6. Copying' /\ Known'
    BY <2>1 DEF ChangeInv, Copying, Known, past, Within
  <2> QED
    BY <2>1, <2>4, <2>5, <2>6 DEF ChangeInv
<1>7. CASE Copied
  <2>1. /\ pc = "copy" /\ pc' = "delete" /\ UNCHANGED <<active, changes, op, bare, past>>
        /\ bare = {} /\ \A p \in todo' : op[p] # "NO_OP"
    BY <1>7 DEF Copied, state
  <2> QED
    BY <2>1 DEF ChangeInv, Known, Between, Faithful, Copying, past, View
<1>8. ASSUME NEW p \in Node, DeleteNode(p) PROVE ChangeInv'
  <2>1. /\ pc = "delete" /\ pc' = "delete" /\ UNCHANGED <<op, bare, past>>
        /\ p \in todo /\ todo' = todo \ {p} /\ p \in DOMAIN op
    BY <1>0, <1>8 DEF DeleteNode, Walk
  <2>2. Known' /\ Copying'
    BY <2>1 DEF ChangeInv, Known, Copying, past
  <2>3. CASE op[p] = "DEL"
    <3>1. active' = Stripped(active, p)
      BY <1>8, <2>3 DEF DeleteNode
    <3>2. changes' = changes
      <4>1. p \in changes.dir => p \notin changes.wh
        BY <1>0 DEF LayerOK
      <4>2. changes' = [changes EXCEPT !.wh = IF p \in changes.dir THEN changes.wh \ {p}
                                                                   ELSE changes.wh]
        BY <1>8, <2>3 DEF DeleteNode
      <4>3. (IF p \in changes.dir THEN changes.wh \ {p} ELSE changes.wh) = changes.wh
        BY <4>1
      <4> QED
        BY <1>0, <4>2, <4>3 DEF Layer
    <3>3. {p} \intersect seen.dir = {}
      BY <2>1, <2>3 DEF ChangeInv, Known
    <3>4. Cut({p})
      BY <1>0, <3>1 DEF Stripped, Without, Plain
    <3>5. Between' /\ Faithful'
      BY <1>1, <2>1, <3>2, <3>3, <3>4 DEF past
    <3> QED
      BY <2>1, <2>2, <3>5 DEF ChangeInv
  <2>4. CASE op[p] # "DEL"
    <3>1. changes' = Emptied(changes, p) /\ active' = active
      BY <1>8, <2>4 DEF DeleteNode
    <3>2. op[p] = "CREATE"
      BY <1>0, <2>1, <2>4 DEF ChangeInv, Copying, Walk, Op
    <3>3. At(p) \intersect before.dir = {}
      BY <1>0, <2>1, <3>2 DEF ChangeInv, Known, At, Below, Sound, Closed
    <3>4. Between'
      BY <2>1, <3>1 DEF ChangeInv, Between, past
\* what the opaque directory hid was made by this commit
    <3>5. \A q \in Node \ At(p) : Covered(changes', q) = Covered(changes, q)
      BY <3>1, EmptiedCovers
    <3>6. View'.dir \subseteq View.dir \union (At(p) \intersect active.dir)
      BY <1>0, <3>1, <3>5 DEF View, Union, Emptied, Layer, Plain
    <3>7. At(p) \intersect active.dir \subseteq seen.dir
      BY <2>1, <3>3 DEF ChangeInv, Between
    <3>8. ASSUME NEW x \in Leaf PROVE View'.val[x] \in {{}, seen.val[x]}
      <4>1. /\ View.val[x] = IF changes.val[x] # {} THEN changes.val[x]
                             ELSE IF FileCovered(changes, x) THEN {} ELSE active.val[x]
            /\ View'.val[x] = IF changes'.val[x] # {} THEN changes'.val[x]
                              ELSE IF FileCovered(changes', x) THEN {} ELSE active.val[x]
        BY <3>1 DEF View, Union
      <4>2. changes'.val[x] = IF x = p THEN {} ELSE changes.val[x]
        BY <3>1 DEF Emptied, Without
      <4>3. CASE x \in At(p)
        <5>1. active.val[x] \in {{}, seen.val[x]}
          BY <1>0, <2>1, <3>3, <4>3 DEF ChangeInv, Between, Sound
        <5> QED
          BY <2>1, <4>1, <4>2, <5>1 DEF ChangeInv, Faithful
      <4>4. CASE x \notin At(p)
        <5>1. x \in Node /\ x # p
          BY <4>4, LeavesOK DEF At
        <5>2. FileCovered(changes', x) = FileCovered(changes, x)
          BY <3>1, <3>5, <4>4, <5>1 DEF FileCovered, Emptied
        <5> QED
          BY <2>1, <4>1, <4>2, <5>1, <5>2 DEF ChangeInv, Faithful
      <4> QED
        BY <4>3, <4>4
    <3>9. Faithful'
      BY <2>1, <3>6, <3>7, <3>8 DEF ChangeInv, Faithful, past
    <3> QED
      BY <2>1, <2>2, <3>4, <3>9 DEF ChangeInv
  <2> QED
    BY <2>3, <2>4
<1>9. CASE Mount
  <2>1. /\ pc = "delete" /\ pc' = "read" /\ UNCHANGED <<active, changes, op, bare, past>>
    BY <1>9 DEF Mount
  <2> QED
    BY <2>1 DEF ChangeInv, Known, Between, Faithful, Copying, past, View
<1>10. CASE CleanUmount
  <2>1. /\ pc = "read" /\ pc' = "clean" /\ UNCHANGED <<active, changes, op, bare, past>>
        /\ \A p \in todo' : op[p] = "DEL"
    BY <1>10 DEF CleanUmount
  <2> QED
    BY <2>1 DEF ChangeInv, Known, Between, Faithful, Copying, past, View
<1>11. ASSUME NEW p \in Node, CleanNode(p) PROVE ChangeInv'
  <2>1. /\ pc = "clean" /\ pc' = "clean" /\ UNCHANGED <<changes, op, bare, past>>
        /\ p \in todo /\ todo' = todo \ {p} /\ p \in DOMAIN op
    BY <1>0, <1>11 DEF CleanNode, Walk
  <2>2. Known' /\ Copying'
    BY <2>1 DEF ChangeInv, Known, Copying, past
  <2>3. At(p) \intersect seen.dir = {}
    BY <1>0, <2>1 DEF ChangeInv, Known, Copying, At, Below, Sound, Closed
  <2>4. Cut(At(p))
    BY <1>0, <1>11 DEF CleanNode, Without, Plain
  <2>5. Between' /\ Faithful'
    BY <1>1, <2>1, <2>3, <2>4 DEF past
  <2> QED
    BY <2>1, <2>2, <2>5 DEF ChangeInv
<1>12. CASE Wipe
  <2>1. /\ pc = "clean" /\ pc' = "wiped" /\ UNCHANGED <<active, op, todo, bare, past>>
    BY <1>12 DEF Wipe, walk
  <2> QED
    BY <2>1 DEF ChangeInv, Known, Between, Copying, past
<1>13. CASE Edit \/ Other \/ Remount \/ Stop \/ Discard
  <2>1. pc' = "idle"
    BY <1>13 DEF Edit, Other, Remount, Stop, Discard
  <2> QED
    BY <2>1 DEF ChangeInv
<1>14. CASE UNCHANGED vars
  BY <1>14 DEF vars, state, walk, past, ChangeInv, Known, Between, Faithful, Copying, View, Within
<1> QED
  BY <1>2, <1>3, <1>4, <1>5, <1>6, <1>7, <1>8, <1>9, <1>10, <1>11, <1>12, <1>13, <1>14 DEF Next

\* Wherever a commit is, the active configuration has what the session did not change, and
\* nothing that neither of the two had, for any trees, nodes picked and earlier deaths.
THEOREM OnlyChangesTheorem == Spec => []OnlyChanges
<1>1. Init => ChangeInv
  BY DEF Init, ChangeInv
<1>2. ChangeInv => OnlyChanges
  BY DEF ChangeInv, Between, OnlyChanges
<1> QED
  BY <1>1, <1>2, TypeInit, TypeStep, ChangeStep, PTL DEF Spec

----------------------------------------------------------------------------
(* What a commit gets done *)

\* The nodes whose subtree was copied, or is being copied
Touched == {p \in Node : \/ \E d \in done : p \in Within(d)
                         \/ pc \in {"copy", "delete"} /\ p \in Within(at)}

Agrees(x) == active.val[x] = seen.val[x] /\ (x \in active.def <=> x \in seen.def)

\* The operations are all that tells what was seen from what was there before.
Complete ==
  /\ seen.dir \ before.dir \subseteq DOMAIN op
  /\ \A p \in DOMAIN op : op[p] = "NO_OP" => p \in before.dir
  /\ \A p \in before.dir \ seen.dir : \E q \in DOMAIN op : op[q] = "DEL" /\ p \in At(q)
  /\ \A x \in valued : x \in Leaf /\ (op[x] # "DEL" => seen.val[x] # {})
  /\ \A x \in (Leaf \intersect seen.dir) \ valued : seen.val[x] = before.val[x] /\ Agrees(x)

\* Outside what is touched the session sees what it saw,
Untouched ==
  pc \notin {"clean", "wiped"} => \A x \in Leaf \ Touched :
    View.val[x] = seen.val[x] /\ (x \in View.def <=> x \in seen.def)

\* so that is what the copy holds,
Copies ==
  /\ pc \in {"merged", "copy"} => \A x \in Leaf \intersect Within(at) :
       tmp.val[x] = seen.val[x] /\ (x \in tmp.def <=> x \in seen.def)
  /\ pc \in {"merged", "copy", "delete"} => \A d \in done : Within(d) \intersect Within(at) = {}
  /\ pc \in {"copy", "delete"} => todo \subseteq Within(at)
  /\ bare \intersect todo = {} /\ bare \intersect active.def = {}

\* and what the active configuration has, once copied.
Settled ==
  \A p \in DOMAIN op \intersect Touched :
    op[p] # "DEL" /\ (pc = "copy" => p \notin todo) =>
      p \in active.dir /\ (p \in valued => p \in bare \/ Agrees(p))

\* What has gone from the changes is in the active configuration.
Kept ==
  /\ changes.wh \intersect seen.dir = {}
  /\ \A p \in changes.dir : p \in DOMAIN op /\ op[p] # "DEL"
  /\ pc = "delete" => \A p \in changes.dir \intersect Within(at) : op[p] = "CREATE" => p \in todo
  /\ \A p \in DOMAIN op : op[p] = "CREATE" => p \in changes.dir \union active.dir
  /\ \A x \in valued : op[x] # "DEL" => seen.val[x] \in {changes.val[x], active.val[x]}

\* A commit cleans up when all is copied, what is deleted topmost first; and then it has
\* made the active configuration what was seen.
Ending ==
  /\ done \subseteq DOMAIN op \union {Root} /\ at \in DOMAIN op \union {Root}
  /\ pc \in {"read", "merged"} /\ done = {} => active = before /\ View = seen
  /\ pc \in {"clean", "wiped"} => Finished
  /\ pc = "clean" => \A q \in DOMAIN op :
       op[q] = "DEL" /\ (\A r \in Up(q, op) : op[r] # "DEL") =>
         q \in todo \/ At(q) \intersect active.dir = {}
  /\ pc = "wiped" => active = seen /\ changes = Empty

DoneInv ==
  /\ Layered(changes)
  /\ pc # "idle" => Complete /\ Untouched /\ Copies /\ Settled /\ Kept /\ Ending

\* When all that is deleted is cleaned away, the active configuration is what was seen.
LEMMA CleanedExact ==
  ASSUME TypeInv, ChangeInv, DoneInv, pc = "clean", todo = {}
  PROVE  active = seen
<1>1. /\ active \in Plain /\ Sound(active) /\ seen \in Plain /\ Sound(seen)
      /\ before \in Plain /\ Sound(before) /\ Walk
  BY DEF TypeInv, Config, Rest
<1>2. Complete /\ Settled /\ Ending /\ Known /\ Between /\ bare = {} /\ Finished
  BY DEF DoneInv, ChangeInv, Copying, Ending
<1>3. active.dir \subseteq seen.dir
  <2> SUFFICES ASSUME NEW p \in active.dir, p \notin seen.dir PROVE FALSE
    OBVIOUS
  <2>1. p \in before.dir /\ p \in Node
    BY <1>1, <1>2 DEF Between, Plain
  <2> DEFINE S == {q \in DOMAIN op : op[q] = "DEL" /\ p \in At(q)}
  <2>2. S \in SUBSET Node /\ S # {}
    BY <1>1, <1>2, <2>1 DEF Complete, Walk
  <2>3. PICK t \in S : Above[t] \intersect S = {}
    BY <2>2, Topmost
  <2>4. \A r \in Up(t, op) : op[r] # "DEL"
    <3> SUFFICES ASSUME NEW r \in Up(t, op), op[r] = "DEL" PROVE FALSE
      OBVIOUS
    <3>1. r \in DOMAIN op /\ r \in Above[t]
      BY DEF Up, Inside
    <3>2. p \in At(r)
      BY <1>1, <2>1, <2>2, <3>1, Ancestors DEF At, Below, Closed
    <3> QED
      BY <2>3, <3>1, <3>2
  <2>5. At(t) \intersect active.dir = {}
    BY <1>2, <2>4 DEF Ending
  <2> QED
    BY <2>5
<1>4. seen.dir \subseteq active.dir
  <2> SUFFICES ASSUME NEW p \in seen.dir, p \notin active.dir PROVE FALSE
    OBVIOUS
  <2>1. p \notin before.dir /\ p \in DOMAIN op /\ p \in Node
    BY <1>1, <1>2 DEF Between, Complete, Plain
  <2>2. op[p] = "CREATE"
    BY <1>1, <1>2, <2>1 DEF Known, Complete, Walk, Op
  <2>3. CASE \E n \in done : p \in Within(n)
    BY <1>2, <2>1, <2>2, <2>3 DEF Settled, Touched
  <2>4. CASE \E n \in done \intersect Below(p) : op[n] # "DEL"
    <3>1. PICK n \in done \intersect Below(p) : op[n] # "DEL"
      BY <2>4
    <3>2. n \in Node /\ p \in Above[n] /\ n \in DOMAIN op
      BY <1>2, NodesOK DEF Below, Ending
    <3>3. n \in Touched
      BY <3>2, NodesOK DEF Touched, Within, At
    <3>4. n \in active.dir
      BY <1>2, <3>1, <3>2, <3>3 DEF Settled
    <3> QED
      BY <1>1, <3>2, <3>4 DEF Sound, Closed
  <2> QED
    BY <1>2, <2>1, <2>2, <2>3, <2>4 DEF Finished
<1>5. ASSUME NEW x \in Leaf PROVE Agrees(x)
  <2>1. CASE x \notin seen.dir
    BY <1>1, <1>3, <2>1 DEF Agrees, Sound
  <2>2. CASE x \in seen.dir /\ x \notin valued
    BY <1>2, <2>2 DEF Complete
  <2>3. CASE x \in seen.dir /\ x \in valued
    <3>1. x \in DOMAIN op /\ x \in Node /\ op[x] # "DEL"
      BY <1>1, <1>2, <2>3, LeavesOK DEF Walk, Known
    <3>2. Below(x) = {}
      BY LeavesOK DEF Below
    <3>3. PICK n \in done : x \in Within(n)
      BY <1>2, <3>1, <3>2 DEF Finished
    <3> QED
      BY <1>2, <2>3, <3>1, <3>3 DEF Settled, Touched
  <2> QED
    BY <2>1, <2>2, <2>3
<1>6. active.dir = seen.dir /\ active.val = seen.val /\ active.def = seen.def
  <2>1. active.val = seen.val
    BY <1>1, <1>5 DEF Agrees, Plain
  <2>2. active.def = seen.def
    BY <1>1, <1>5 DEF Agrees, Plain
  <2> QED
    BY <1>3, <1>4, <2>1, <2>2
<1> QED
  BY <1>1, <1>6 DEF Plain

LEMMA ReadDone ==
  ASSUME TypeInv, DoneInv, Read
  PROVE  DoneInv'
<1>1. /\ pc' = "read" /\ op' = Operations /\ valued' = Valued /\ seen' = View /\ before' = active
      /\ done' = {} /\ at' = Root /\ todo' = {} /\ bare' = {}
      /\ UNCHANGED <<active, changes>>
  BY DEF Read, state
<1>2. Layered(changes) /\ Layered(changes')
  BY <1>1 DEF DoneInv
<1>3. /\ active \in Plain /\ changes \in Layer
  BY DEF TypeInv, Config, LayerOK
<1>4. Complete'
  <2>1. \A p \in before'.dir \ seen'.dir : \E q \in DOMAIN op' : op'[q] = "DEL" /\ p \in At(q)
    BY <1>1, <1>2, TopDeleted
  <2>2. \A x \in valued' : x \in Leaf /\ (op'[x] # "DEL" => seen'.val[x] # {})
    BY <1>1, <1>2, ReadTells
  <2>3. \A x \in (Leaf \intersect seen'.dir) \ valued' :
          seen'.val[x] = before'.val[x] /\ Agrees(x)'
    BY <1>1, <1>2, ReadTells DEF Agrees
  <2> QED
    BY <1>1, <1>2, <2>1, <2>2, <2>3, ReadTells DEF Complete
<1>5. Untouched' /\ Copies' /\ Settled'
  BY <1>1 DEF Untouched, Copies, Settled, Touched, View
<1>6. Kept'
  <2>1. \A p \in changes.dir : p \in DOMAIN Operations /\ Operations[p] # "DEL"
    BY <1>2, ReadTells
  <2>2. \A p \in DOMAIN Operations : Operations[p] = "CREATE" => p \in changes.dir
    BY <1>2, ReadTells
  <2>3. \A x \in Valued : Operations[x] # "DEL" => View.val[x] = changes.val[x]
    BY <1>2, ReadTells
  <2>4. changes.wh \intersect View.dir = {}
    BY <1>2, ReadTells
  <2> QED
    BY <1>1, <2>1, <2>2, <2>3, <2>4 DEF Kept
<1>7. Ending'
  BY <1>1 DEF Ending, View
<1> QED
  BY <1>2, <1>4, <1>5, <1>6, <1>7 DEF DoneInv

LEMMA MergeDone ==
  ASSUME TypeInv, DoneInv, NEW n \in Node \union {Root}, Merge(n)
  PROVE  DoneInv'
<1>1. /\ pc = "read" /\ pc' = "merged" /\ at' = n
      /\ UNCHANGED <<active, changes, op, valued, done, todo, bare, seen, before>>
      /\ \A d \in done : Within(d) \intersect Within(n) = {}
      /\ n \in DOMAIN op \union {Root}
  BY DEF Merge, past
<1>2. \A x \in Leaf \intersect Within(n) :
        tmp'.val[x] = View.val[x] /\ (x \in tmp'.def <=> x \in View.def)
  BY DEF Merge
<1>3. Touched' = Touched
  BY <1>1 DEF Touched
<1>4. \A x \in Leaf \intersect Within(n) : x \notin Touched
  BY <1>1 DEF Touched
<1>5. Complete'
  BY <1>1 DEF DoneInv, Complete, Agrees
<1>6. Untouched'
  BY <1>1, <1>3 DEF DoneInv, Untouched, View
<1>7. Copies'
  <2>1. \A x \in Leaf \intersect Within(n) :
          tmp'.val[x] = seen'.val[x] /\ (x \in tmp'.def <=> x \in seen'.def)
    BY <1>1, <1>2, <1>4 DEF DoneInv, Untouched
  <2> QED
    BY <1>1, <2>1 DEF DoneInv, Copies
<1>8. Settled'
  BY <1>1, <1>3 DEF DoneInv, Settled, Agrees
<1>9. Kept' /\ Ending' /\ Layered(changes')
  BY <1>1 DEF DoneInv, Kept, Ending, View
<1> QED
  BY <1>5, <1>6, <1>7, <1>8, <1>9 DEF DoneInv

LEMMA UmountDone ==
  ASSUME TypeInv, ChangeInv, DoneInv, Umount
  PROVE  DoneInv'
<1>1. /\ pc = "merged" /\ pc' = "copy" /\ todo' = Within(at) \intersect DOMAIN op
      /\ UNCHANGED <<active, changes, tmp, op, valued, at, done, bare, seen, before>>
      /\ bare = {}
  BY DEF Umount, past, ChangeInv, Copying
<1>2. Touched' = Touched \union (Node \intersect Within(at))
  BY <1>1 DEF Touched
<1>3. Complete'
  BY <1>1 DEF DoneInv, Complete, Agrees
<1>4. Untouched'
  BY <1>1, <1>2 DEF DoneInv, Untouched, View
<1>5. Copies'
  BY <1>1 DEF DoneInv, Copies
<1>6. Settled'
  BY <1>1, <1>2 DEF DoneInv, Settled, Agrees
<1>7. Kept' /\ Ending' /\ Layered(changes')
  BY <1>1 DEF DoneInv, Kept, Ending
<1> QED
  BY <1>3, <1>4, <1>5, <1>6, <1>7 DEF DoneInv

LEMMA CopyDirDone ==
  ASSUME TypeInv, DoneInv, NEW p \in Node, CopyDir(p)
  PROVE  DoneInv'
<1>1. /\ pc = "copy" /\ pc' = "copy" /\ bare = {} /\ p \in todo /\ todo' = todo \ {p}
      /\ bare' = {p} \intersect valued
      /\ UNCHANGED <<changes, tmp, op, valued, at, done, seen, before>>
  BY DEF CopyDir, past
<1>2. /\ active'.dir = IF op[p] = "DEL" THEN active.dir ELSE active.dir \union Above[p] \union {p}
      /\ active'.val = active.val /\ active'.def = active.def \ bare'
  BY DEF CopyDir, TypeInv, Config, Plain
<1>3. Touched' = Touched /\ p \in Touched
  BY <1>1 DEF Touched, DoneInv, Copies
<1>4. \A x \in Leaf : x # p => (Agrees(x)' <=> Agrees(x))
  BY <1>1, <1>2 DEF Agrees
<1>5. Complete'
  <2>1. \A x \in Leaf \ valued : Agrees(x)' <=> Agrees(x)
    BY <1>1, <1>2 DEF Agrees
  <2> QED
    BY <1>1, <2>1 DEF DoneInv, Complete
<1>6. Untouched'
  <2> SUFFICES ASSUME NEW x \in Leaf \ Touched
               PROVE  View'.val[x] = seen.val[x] /\ (x \in View'.def <=> x \in seen.def)
    BY <1>1, <1>3 DEF Untouched
  <2>1. View'.val[x] = View.val[x] /\ (x \in View'.def <=> x \in View.def)
    BY <1>1, <1>2, <1>3 DEF View, Union
  <2> QED
    BY <1>1, <2>1 DEF DoneInv, Untouched
<1>7. Copies'
  BY <1>1, <1>2 DEF DoneInv, Copies
<1>8. Settled'
  <2> SUFFICES ASSUME NEW q \in DOMAIN op \intersect Touched, op[q] # "DEL", q \notin todo'
               PROVE  q \in active'.dir /\ (q \in valued => q \in bare' \/ Agrees(q)')
    BY <1>1, <1>3 DEF Settled
  <2>1. CASE q = p
    BY <1>1, <1>2, <2>1
  <2>2. CASE q # p
    <3>1. q \in active.dir /\ (q \in valued => Agrees(q) /\ q \in Leaf)
      BY <1>1, <2>2 DEF DoneInv, Settled, Complete
    <3> QED
      BY <1>2, <1>4, <2>2, <3>1
  <2> QED
    BY <2>1, <2>2
<1>9. Kept' /\ Ending' /\ Layered(changes')
  BY <1>1, <1>2 DEF DoneInv, Kept, Ending
<1> QED
  BY <1>5, <1>6, <1>7, <1>8, <1>9 DEF DoneInv

LEMMA CopyValueDone ==
  ASSUME TypeInv, ChangeInv, DoneInv, CopyValue
  PROVE  DoneInv'
<1>1. /\ pc = "copy" /\ pc' = "copy" /\ bare' = {}
      /\ UNCHANGED <<changes, tmp, op, valued, at, done, todo, seen, before>>
  BY DEF CopyValue, past
<1>2. /\ active'.dir = active.dir
      /\ \A x \in Leaf : active'.val[x] = IF x \in bare \intersect active.dir /\ tmp.val[x] # {}
                                         THEN tmp.val[x] ELSE active.val[x]
      /\ active'.def = active.def \union (bare \intersect active.dir \intersect tmp.def)
  BY DEF CopyValue, TypeInv, Config, Plain
<1>3. Touched' = Touched
  BY <1>1 DEF Touched
<1>4. \A x \in bare : /\ x \in Leaf /\ x \in Touched /\ x \in DOMAIN op /\ x \notin todo
                      /\ x \notin active.def /\ x \in valued
                      /\ tmp.val[x] = seen.val[x] /\ (x \in tmp.def <=> x \in seen.def)
  <2> SUFFICES ASSUME NEW x \in bare
               PROVE  /\ x \in Leaf /\ x \in Touched /\ x \in DOMAIN op /\ x \notin todo
                      /\ x \notin active.def /\ x \in valued
                      /\ tmp.val[x] = seen.val[x] /\ (x \in tmp.def <=> x \in seen.def)
    OBVIOUS
  <2>1. x \in valued /\ x \in Leaf /\ x \in DOMAIN op /\ x \in Within(at)
    BY <1>1 DEF TypeInv, Walk, DoneInv, Complete, ChangeInv, Copying
  <2>2. x \in Touched
    BY <1>1, <2>1, LeavesOK DEF Touched
  <2> QED
    BY <1>1, <2>1, <2>2 DEF DoneInv, Copies
<1>5. ASSUME NEW x \in bare, op[x] # "DEL" PROVE Agrees(x)'
  <2>1. x \in active.dir /\ tmp.val[x] # {}
    BY <1>1, <1>4, <1>5 DEF DoneInv, Settled, Complete
  <2> QED
    BY <1>1, <1>2, <1>4, <2>1 DEF Agrees
<1>6. ASSUME NEW x \in Leaf, x \notin bare \/ op[x] = "DEL"
      PROVE  active'.val[x] = active.val[x] /\ (x \in active'.def <=> x \in active.def)
  <2>1. CASE x \notin bare
    BY <1>2, <2>1
  <2>2. CASE x \in bare /\ op[x] = "DEL"
    <3>1. x \notin seen.dir
      BY <1>1, <1>4, <2>2 DEF ChangeInv, Known
    <3>2. seen.val[x] = {} /\ x \notin seen.def
      BY <3>1 DEF TypeInv, Rest, Sound, Plain
    <3> QED
      BY <1>2, <1>4, <2>2, <3>2
  <2> QED
    BY <1>6, <2>1, <2>2
<1>7. Complete'
  <2>1. \A x \in Leaf \ valued : Agrees(x)' <=> Agrees(x)
    BY <1>1, <1>4, <1>6 DEF Agrees
  <2> QED
    BY <1>1, <2>1 DEF DoneInv, Complete
<1>8. Untouched'
  <2> SUFFICES ASSUME NEW x \in Leaf \ Touched
               PROVE  View'.val[x] = seen.val[x] /\ (x \in View'.def <=> x \in seen.def)
    BY <1>1, <1>3 DEF Untouched
  <2>1. View'.val[x] = View.val[x] /\ (x \in View'.def <=> x \in View.def)
    BY <1>1, <1>4, <1>6 DEF View, Union
  <2> QED
    BY <1>1, <2>1 DEF DoneInv, Untouched
<1>9. Copies'
  BY <1>1 DEF DoneInv, Copies
<1>10. Settled'
  <2> SUFFICES ASSUME NEW q \in DOMAIN op \intersect Touched, op[q] # "DEL", q \notin todo
               PROVE  q \in active'.dir /\ (q \in valued => Agrees(q)')
    BY <1>1, <1>3 DEF Settled
  <2>1. q \in active.dir /\ (q \in valued => q \in Leaf /\ (q \in bare \/ Agrees(q)))
    BY <1>1 DEF DoneInv, Settled, Complete
  <2>2. q \in valued /\ q \notin bare => Agrees(q)'
    BY <1>1, <1>6, <2>1 DEF Agrees
  <2> QED
    BY <1>2, <1>5, <2>1, <2>2
<1>11. Kept'
  <2>1. \A x \in valued : op[x] # "DEL" => seen.val[x] \in {changes.val[x], active'.val[x]}
    <3> SUFFICES ASSUME NEW x \in valued, op[x] # "DEL"
                 PROVE  seen.val[x] \in {changes.val[x], active'.val[x]}
      OBVIOUS
    <3>1. x \in Leaf
      BY <1>1 DEF DoneInv, Complete
    <3>2. CASE x \in bare
      BY <1>1, <1>5, <3>2 DEF Agrees
    <3>3. CASE x \notin bare
      BY <1>1, <1>6, <3>1, <3>3 DEF DoneInv, Kept
    <3> QED
      BY <3>2, <3>3
  <2> QED
    BY <1>1, <1>2, <2>1 DEF DoneInv, Kept
<1>12. Ending' /\ Layered(changes')
  BY <1>1 DEF DoneInv, Ending
<1> QED
  BY <1>7, <1>8, <1>9, <1>10, <1>11, <1>12 DEF DoneInv

LEMMA CopiedDone ==
  ASSUME TypeInv, DoneInv, Copied
  PROVE  DoneInv'
<1>1. /\ pc = "copy" /\ pc' = "delete" /\ bare = {} /\ todo = {}
      /\ todo' = {p \in Within(at) \intersect DOMAIN op : op[p] # "NO_OP"}
      /\ UNCHANGED <<active, changes, op, valued, at, done, bare, seen, before>>
  BY DEF Copied, state, past
<1>2. Touched' = Touched
  BY <1>1 DEF Touched
<1>3. Complete'
  BY <1>1 DEF DoneInv, Complete, Agrees
<1>4. Untouched'
  BY <1>1, <1>2 DEF DoneInv, Untouched, View
<1>5. Copies'
  BY <1>1 DEF DoneInv, Copies
<1>6. Settled'
  BY <1>1, <1>2 DEF DoneInv, Settled, Agrees
<1>7. Kept'
  BY <1>1 DEF DoneInv, Kept
<1>8. Ending' /\ Layered(changes')
  BY <1>1 DEF DoneInv, Ending
<1> QED
  BY <1>3, <1>4, <1>5, <1>6, <1>7, <1>8 DEF DoneInv

\* Deleting bottom up. What was deleted goes from the active configuration; of the changes
\* there goes what was copied.
LEMMA DeleteNodeDone ==
  ASSUME TypeInv, ChangeInv, DoneInv, NEW p \in Node, DeleteNode(p)
  PROVE  DoneInv'
<1>1. /\ pc = "delete" /\ pc' = "delete" /\ bare = {} /\ p \in todo /\ todo' = todo \ {p}
      /\ Below(p) \intersect todo = {} /\ p \in DOMAIN op
      /\ UNCHANGED <<op, valued, at, done, bare, seen, before>>
  BY DEF DeleteNode, past, TypeInv, Walk, ChangeInv, Copying
<1>2. Touched' = Touched
  BY <1>1 DEF Touched
<1>3. p \in Within(at) /\ At(p) \subseteq Within(at)
  BY <1>1, Ancestors DEF DoneInv, Copies, Within, At, Below, Closed
<1>4. At(p) \subseteq Touched
  BY <1>1, <1>3 DEF Touched, At, Below
<1>6. Ending'
  BY <1>1 DEF DoneInv, Ending
<1>7. CASE op[p] = "DEL"
  <2>1. active' = Stripped(active, p)
    BY <1>7 DEF DeleteNode
  <2>2. changes' = changes
    <3>1. /\ p \in changes.dir => p \notin changes.wh
          /\ changes \in Layer
      BY DEF TypeInv, Config, LayerOK
    <3>2. changes' = [changes EXCEPT !.wh = IF p \in changes.dir THEN changes.wh \ {p}
                                                                 ELSE changes.wh]
      BY <1>7 DEF DeleteNode
    <3>3. (IF p \in changes.dir THEN changes.wh \ {p} ELSE changes.wh) = changes.wh
      BY <3>1
    <3> QED
      BY <3>1, <3>2, <3>3 DEF Layer
  <2>3. /\ p \notin seen.dir
        /\ \A q \in active.dir : q # p => q \in active'.dir
        /\ \A x \in Leaf : x # p => active'.val[x] = active.val[x]
        /\ \A x \in Leaf : x # p => (x \in active'.def <=> x \in active.def)
        /\ active'.def \subseteq active.def
    BY <1>1, <1>7, <2>1 DEF ChangeInv, Known, Stripped, Without
  <2>4. \A x \in Leaf : x # p => (Agrees(x)' <=> Agrees(x))
    BY <1>1, <2>3 DEF Agrees
  <2>5. Complete'
    BY <1>1, <2>3, <2>4 DEF DoneInv, Complete
  <2>6. Untouched'
    <3> SUFFICES ASSUME NEW x \in Leaf \ Touched
                 PROVE  View'.val[x] = seen.val[x] /\ (x \in View'.def <=> x \in seen.def)
      BY <1>1, <1>2 DEF Untouched
    <3>1. View'.val[x] = View.val[x] /\ (x \in View'.def <=> x \in View.def)
      BY <1>4, <2>2, <2>3 DEF View, Union, At
    <3> QED
      BY <1>1, <3>1 DEF DoneInv, Untouched
  <2>7. Copies'
    BY <1>1, <2>3 DEF DoneInv, Copies
  <2>8. Settled'
    <3> SUFFICES ASSUME NEW q \in DOMAIN op \intersect Touched, op[q] # "DEL"
                 PROVE  q \in active'.dir /\ (q \in valued => Agrees(q)')
      BY <1>1, <1>2 DEF Settled
    <3>1. q \in active.dir /\ (q \in valued => q \in Leaf /\ Agrees(q))
      BY <1>1 DEF DoneInv, Settled, Complete
    <3> QED
      BY <1>7, <2>3, <2>4, <3>1
  <2>9. Kept'
    <3>1. \A q \in DOMAIN op : op[q] = "CREATE" => q \in changes.dir \union active'.dir
      BY <1>1, <1>7, <2>3 DEF DoneInv, Kept
    <3>2. \A x \in valued : op[x] # "DEL" => seen.val[x] \in {changes.val[x], active'.val[x]}
      BY <1>1, <1>7, <2>3 DEF DoneInv, Kept, Complete
    <3>3. \A r \in changes.dir \intersect Within(at) : op[r] = "CREATE" => r \in todo'
      BY <1>1, <1>7 DEF DoneInv, Kept
    <3> QED
      BY <1>1, <2>2, <3>1, <3>2, <3>3 DEF DoneInv, Kept
  <2> QED
    BY <1>6, <2>2, <2>5, <2>6, <2>7, <2>8, <2>9 DEF DoneInv
<1>8. CASE op[p] # "DEL"
  <2>1. changes' = Emptied(changes, p) /\ active' = active
    BY <1>8 DEF DeleteNode
  <2>2. op[p] = "CREATE" /\ p \notin before.dir
    BY <1>1, <1>8 DEF ChangeInv, Copying, Known, TypeInv, Walk, Op
\* what lies below it in the changes was made by the session, so it goes first
  <2>3. Below(p) \intersect changes.dir = {}
    <3> SUFFICES ASSUME NEW r \in Below(p), r \in changes.dir PROVE FALSE
      OBVIOUS
    <3>1. r \in DOMAIN op /\ op[r] # "DEL" /\ r \in Within(at) /\ r \in Node
      BY <1>1, <1>3 DEF DoneInv, Kept, At, Below
    <3>2. r \notin before.dir
      BY <2>2, <3>1 DEF TypeInv, Rest, Sound, Closed, Below
    <3>3. op[r] = "CREATE"
      BY <1>1, <3>1, <3>2 DEF DoneInv, Complete, TypeInv, Walk, Op
    <3> QED
      BY <1>1, <3>1, <3>3 DEF DoneInv, Kept
  <2>4. LayerOK(changes) /\ Layered(changes)
    BY DEF TypeInv, Config, DoneInv
  <2>5. Layered(changes') /\ changes'.dir = changes.dir \ {p}
    BY <2>1, <2>3, <2>4, EmptiedLayered
  <2>6. /\ changes'.wh \subseteq changes.wh
        /\ \A x \in Leaf : x # p => changes'.val[x] = changes.val[x]
    BY <2>1 DEF Emptied, Without
  <2>7. Complete'
    BY <1>1, <2>1 DEF DoneInv, Complete, Agrees
  <2>8. Untouched'
    <3> SUFFICES ASSUME NEW x \in Leaf \ Touched
                 PROVE  View'.val[x] = seen.val[x] /\ (x \in View'.def <=> x \in seen.def)
      BY <1>1, <1>2 DEF Untouched
    <3>1. x \in Node \ At(p) /\ x # p
      BY <1>4, LeavesOK DEF At
    <3>2. FileCovered(changes', x) = FileCovered(changes, x)
      <4>1. Covered(changes', x) = Covered(changes, x)
        BY <2>1, <3>1, EmptiedCovers
      <4>2. x \in changes'.opq <=> x \in changes.opq
        BY <2>1, <3>1 DEF Emptied
      <4> QED
        BY <4>1, <4>2 DEF FileCovered
    <3>3. /\ x \in changes'.def <=> x \in changes.def
          /\ x \in changes'.whdef <=> x \in changes.whdef
      BY <2>1, <3>1 DEF Emptied
    <3>4. View'.val[x] = View.val[x]
      BY <2>1, <2>6, <3>1, <3>2 DEF View, Union
    <3>5. x \in View'.def <=> x \in View.def
      BY <2>1, <3>2, <3>3 DEF View, Union
    <3> QED
      BY <1>1, <3>4, <3>5 DEF DoneInv, Untouched
  <2>9. Copies'
    BY <1>1, <2>1 DEF DoneInv, Copies
  <2>10. Settled'
    BY <1>1, <1>2, <2>1 DEF DoneInv, Settled, Agrees
  <2>11. p \in active.dir /\ (p \in valued => Agrees(p))
    BY <1>1, <1>4, <1>8 DEF DoneInv, Settled, At
  <2>12. Kept'
    <3>1. \A q \in DOMAIN op : op[q] = "CREATE" => q \in changes'.dir \union active.dir
      BY <1>1, <2>5, <2>11 DEF DoneInv, Kept
    <3>2. \A x \in valued : op[x] # "DEL" => seen.val[x] \in {changes'.val[x], active.val[x]}
      BY <1>1, <2>6, <2>11 DEF DoneInv, Kept, Complete, Agrees
    <3>3. \A r \in changes'.dir \intersect Within(at) : op[r] = "CREATE" => r \in todo'
      BY <1>1, <2>5 DEF DoneInv, Kept
    <3> QED
      BY <1>1, <2>1, <2>5, <2>6, <3>1, <3>2, <3>3 DEF DoneInv, Kept
  <2> QED
    BY <1>6, <2>5, <2>7, <2>8, <2>9, <2>10, <2>12 DEF DoneInv
<1> QED
  BY <1>7, <1>8

LEMMA MountDone ==
  ASSUME TypeInv, ChangeInv, DoneInv, Mount
  PROVE  DoneInv'
<1>1. /\ pc = "delete" /\ pc' = "read" /\ todo = {} /\ bare = {} /\ done' = done \union {at}
      /\ UNCHANGED <<active, changes, op, valued, at, todo, bare, seen, before>>
  BY DEF Mount, past, ChangeInv, Copying
<1>2. Touched' = Touched
  BY <1>1 DEF Touched
<1>3. Complete'
  BY <1>1 DEF DoneInv, Complete, Agrees
<1>4. Untouched'
  BY <1>1, <1>2 DEF DoneInv, Untouched, View
<1>5. Copies'
  BY <1>1 DEF DoneInv, Copies
<1>6. Settled'
  BY <1>1, <1>2 DEF DoneInv, Settled, Agrees
<1>7. Kept' /\ Ending' /\ Layered(changes')
  BY <1>1 DEF DoneInv, Kept, Ending
<1> QED
  BY <1>3, <1>4, <1>5, <1>6, <1>7 DEF DoneInv

LEMMA CleanUmountDone ==
  ASSUME TypeInv, ChangeInv, DoneInv, CleanUmount
  PROVE  DoneInv'
<1>1. /\ pc = "read" /\ pc' = "clean" /\ bare = {} /\ Finished
      /\ todo' = {p \in DOMAIN op : op[p] = "DEL" /\ \A q \in Up(p, op) : op[q] # "DEL"}
      /\ UNCHANGED <<active, changes, op, valued, at, done, bare, seen, before>>
  BY DEF CleanUmount, past, ChangeInv, Copying
<1>2. Touched' = Touched
  BY <1>1 DEF Touched
<1>3. Complete'
  BY <1>1 DEF DoneInv, Complete, Agrees
<1>4. Untouched' /\ Copies'
  BY <1>1 DEF DoneInv, Untouched, Copies
<1>5. Settled'
  BY <1>1, <1>2 DEF DoneInv, Settled, Agrees
<1>6. Kept' /\ Layered(changes')
  BY <1>1 DEF DoneInv, Kept
<1>7. Ending'
  BY <1>1 DEF DoneInv, Ending, Finished, Up
<1> QED
  BY <1>3, <1>4, <1>5, <1>6, <1>7 DEF DoneInv

LEMMA CleanNodeDone ==
  ASSUME TypeInv, ChangeInv, DoneInv, NEW p \in Node, CleanNode(p)
  PROVE  DoneInv'
<1>1. /\ pc = "clean" /\ pc' = "clean" /\ p \in todo /\ todo' = todo \ {p} /\ bare = {}
      /\ UNCHANGED <<changes, op, valued, at, done, bare, seen, before>>
      /\ p \in DOMAIN op /\ op[p] = "DEL"
  BY DEF CleanNode, past, TypeInv, Walk, ChangeInv, Copying
<1>2. At(p) \intersect seen.dir = {}
  BY <1>1 DEF ChangeInv, Known, TypeInv, Rest, At, Below, Sound, Closed
<1>3. /\ active'.dir = active.dir \ At(p) /\ active'.def = active.def \ At(p)
      /\ \A x \in Leaf : active'.val[x] = IF x \in At(p) THEN {} ELSE active.val[x]
  BY DEF CleanNode, Without
<1>4. Touched' = Touched
  BY <1>1 DEF Touched
<1>5. \A x \in Leaf \intersect seen.dir : Agrees(x)' <=> Agrees(x)
  BY <1>1, <1>2, <1>3 DEF Agrees
<1>6. Complete'
  BY <1>1, <1>5 DEF DoneInv, Complete
<1>7. Untouched' /\ Copies'
  BY <1>1, <1>3 DEF DoneInv, Untouched, Copies
<1>8. Settled'
  <2> SUFFICES ASSUME NEW q \in DOMAIN op \intersect Touched, op[q] # "DEL"
               PROVE  q \in active'.dir /\ (q \in valued => Agrees(q)')
    BY <1>1, <1>4 DEF Settled
  <2>1. q \in seen.dir
    BY <1>1 DEF ChangeInv, Known
  <2>2. q \in active.dir /\ (q \in valued => q \in Leaf /\ Agrees(q))
    BY <1>1 DEF DoneInv, Settled, Complete
  <2> QED
    BY <1>2, <1>3, <1>5, <2>1, <2>2
<1>9. Kept'
  <2>1. \A q \in DOMAIN op : op[q] = "CREATE" => q \in changes.dir \union active'.dir
    BY <1>1, <1>2, <1>3 DEF DoneInv, Kept, ChangeInv, Known
  <2>2. \A x \in valued : op[x] # "DEL" => seen.val[x] \in {changes.val[x], active'.val[x]}
    <3> SUFFICES ASSUME NEW x \in valued, op[x] # "DEL"
                 PROVE  seen.val[x] \in {changes.val[x], active'.val[x]}
      OBVIOUS
    <3>1. x \in Leaf /\ x \in seen.dir
      BY <1>1 DEF DoneInv, Complete, ChangeInv, Known, TypeInv, Walk
    <3> QED
      BY <1>1, <1>2, <1>3, <3>1 DEF DoneInv, Kept
  <2> QED
    BY <1>1, <2>1, <2>2 DEF DoneInv, Kept
<1>10. Ending'
  <2>1. Finished'
    BY <1>1 DEF DoneInv, Ending, Finished
  <2>2. ASSUME NEW q \in DOMAIN op, op[q] = "DEL", \A r \in Up(q, op) : op[r] # "DEL"
        PROVE  q \in todo' \/ At(q) \intersect active'.dir = {}
    BY <1>1, <1>3, <2>2 DEF DoneInv, Ending
  <2> QED
    BY <1>1, <2>1, <2>2 DEF DoneInv, Ending, Up
<1>11. Layered(changes')
  BY <1>1 DEF DoneInv
<1> QED
  BY <1>6, <1>7, <1>8, <1>9, <1>10, <1>11 DEF DoneInv

LEMMA WipeDone ==
  ASSUME TypeInv, ChangeInv, DoneInv, Wipe
  PROVE  DoneInv'
<1>1. /\ pc = "clean" /\ pc' = "wiped" /\ todo = {} /\ bare = {} /\ changes' = Empty
      /\ UNCHANGED <<active, op, valued, at, done, todo, bare, seen, before>>
  BY DEF Wipe, walk, past, ChangeInv, Copying
<1>2. active = seen
  BY <1>1, CleanedExact
<1>3. Touched' = Touched
  BY <1>1 DEF Touched
<1>4. Complete'
  BY <1>1 DEF DoneInv, Complete, Agrees
<1>5. Untouched' /\ Copies'
  BY <1>1 DEF DoneInv, Untouched, Copies
<1>6. Settled'
  BY <1>1, <1>3 DEF DoneInv, Settled, Agrees
<1>7. Kept'
  BY <1>1, <1>2 DEF Kept, Empty, ChangeInv, Known
<1>8. Ending'
  BY <1>1, <1>2 DEF DoneInv, Ending, Finished
<1> QED
  BY <1>1, <1>4, <1>5, <1>6, <1>7, <1>8, EmptyLayered DEF DoneInv

LEMMA EditDone ==
  ASSUME TypeInv, DoneInv, Edit
  PROVE  DoneInv'
<1>1. pc' = "idle"
  BY DEF Edit
<1>2. /\ LayerOK(changes) /\ Layered(changes) /\ active \in Plain /\ Sound(active)
      /\ changes \in Layer
  BY DEF TypeInv, Config, DoneInv, LayerOK
<1>3. CASE \E p \in Node \ (Leaf \union View.dir) : changes' = Mkdir(changes, active, p)
  <2>1. PICK p \in Node \ Leaf : changes' = Mkdir(changes, active, p)
    BY <1>3
  <2> QED
    BY <1>1, <1>2, <2>1, MkdirLayered DEF Layered, DoneInv
<1>4. CASE \E x \in Leaf : \E V \in Content(x) \ {{}}, d \in BOOLEAN :
             changes' = Put(changes, active, x, V, d)
  BY <1>1, <1>2, <1>4, PutLayered DEF DoneInv
<1>5. CASE \E p \in View.dir : changes' = Remove(changes, active, p)
  BY <1>1, <1>2, <1>5, RemoveLayered DEF DoneInv, View
<1> QED
  BY <1>3, <1>4, <1>5 DEF Edit

LEMMA DoneStep ==
  ASSUME TypeInv, ChangeInv, DoneInv, [Next]_vars
  PROVE  DoneInv'
<1>1. CASE Other \/ Stop
  BY <1>1 DEF Other, Stop, state, DoneInv
<1>2. CASE Remount \/ Discard
  BY <1>2, EmptyLayered DEF Remount, Discard, DoneInv
<1>3. CASE UNCHANGED vars
  BY <1>3 DEF vars, state, walk, past, DoneInv, Complete, Untouched, Copies, Settled, Kept, Ending,
              Touched, Agrees, View, Finished, Up
<1> QED
  BY <1>1, <1>2, <1>3, ReadDone, MergeDone, UmountDone, CopyDirDone, CopyValueDone, CopiedDone,
     DeleteNodeDone, MountDone, CleanUmountDone, CleanNodeDone, WipeDone, EditDone DEF Next

LEMMA DoneInvariant == Spec => [](TypeInv /\ ChangeInv /\ DoneInv)
<1>1. Init => ChangeInv /\ DoneInv
  BY EmptyLayered DEF Init, ChangeInv, DoneInv
<1> QED
  BY <1>1, TypeInit, TypeStep, ChangeStep, DoneStep, PTL DEF Spec

\* A commit that gets to its end has made the active configuration what the session saw,
\* for any trees, edits, subtrees picked in any order, and deaths before it.
THEOREM CommitExactTheorem == Spec => []CommitExact
<1>1. DoneInv => CommitExact
  BY DEF DoneInv, Ending, CommitExact
<1> QED
  BY <1>1, DoneInvariant, PTL

\* A commit wiped has left the union nothing but the active configuration to show.
LEMMA WipedView ==
  ASSUME TypeInv, DoneInv, pc = "wiped"
  PROVE  View.dir = seen.dir /\ \A x \in Leaf : View.val[x] = seen.val[x]
<1>1. active = seen /\ changes = Empty /\ seen \in Plain
  BY DEF DoneInv, Ending, TypeInv, Rest
<1>2. \A p \in Node : ~Covered(Empty, p)
  BY DEF Covered, Empty
<1>3. View.dir = seen.dir
  BY <1>1, <1>2 DEF View, Union, Empty, Plain
<1>4. ASSUME NEW x \in Leaf PROVE View.val[x] = seen.val[x]
  <2>1. ~FileCovered(Empty, x)
    BY <1>2, LeavesOK DEF FileCovered, Empty
  <2>2. Empty.val[x] = {}
    BY DEF Empty, NoVal
  <2> QED
    BY <1>1, <2>1, <2>2 DEF View, Union
<1> QED
  BY <1>3, <1>4

\* Wherever a commit is, what the session saw is seen still, or is in the active
\* configuration under an opaque directory.
THEOREM NothingLostTheorem == Spec => []NothingLost
<1>1. ASSUME TypeInv, ChangeInv, DoneInv PROVE NothingLost
  <2> SUFFICES ASSUME pc # "idle"
               PROVE  /\ \A p \in seen.dir \ View.dir :
                           p \in active.dir /\ Above[p] \intersect changes.opq # {}
                      /\ \A x \in Leaf : \/ View.val[x] = seen.val[x]
                                         \/ /\ active.val[x] = seen.val[x]
                                            /\ (Above[x] \union {x}) \intersect changes.opq # {}
    BY DEF NothingLost
  <2>1. CASE pc = "wiped"
    BY <1>1, <2>1, WipedView
  <2>2. CASE pc # "wiped"
    <3>1. /\ Complete /\ Kept /\ Known /\ Between /\ Faithful /\ Walk
          /\ seen \in Plain /\ Sound(seen) /\ active \in Plain
      BY <1>1, <2>2 DEF DoneInv, ChangeInv, TypeInv, Config, Rest
    <3>2. /\ View.dir = changes.dir \union {p \in active.dir : ~Covered(changes, p)}
          /\ \A x \in Leaf : View.val[x] = IF changes.val[x] # {} THEN changes.val[x]
                                          ELSE IF FileCovered(changes, x) THEN {} ELSE active.val[x]
      BY DEF View, Union
    <3>3. \A p \in seen.dir : (Above[p] \union {p}) \intersect changes.wh = {}
      BY <3>1 DEF Kept, Plain, Sound, Closed
    <3>4. ASSUME NEW p \in seen.dir \ View.dir
          PROVE  p \in active.dir /\ Above[p] \intersect changes.opq # {}
      <4>1. p \in active.dir
        <5>1. CASE p \in before.dir
          BY <3>1, <5>1 DEF Between
        <5>2. CASE p \notin before.dir
          <6>1. p \in DOMAIN op
            BY <3>1, <5>2 DEF Complete
          <6>2. op[p] = "CREATE"
            BY <3>1, <5>2, <6>1 DEF Known, Complete, Walk, Op
          <6> QED
            BY <3>1, <3>2, <6>1, <6>2 DEF Kept
        <5> QED
          BY <5>1, <5>2
      <4>2. Covered(changes, p)
        BY <3>2, <4>1
      <4> QED
        BY <3>3, <4>1, <4>2 DEF Covered
    <3>5. ASSUME NEW x \in Leaf, View.val[x] # seen.val[x]
          PROVE  active.val[x] = seen.val[x] /\ (Above[x] \union {x}) \intersect changes.opq # {}
      <4>1. View.val[x] = {} /\ seen.val[x] # {} /\ x \in seen.dir
        BY <3>1, <3>5 DEF Faithful, Sound
      <4>2. changes.val[x] = {}
        BY <3>2, <4>1
      <4>3. active.val[x] = seen.val[x]
        <5>1. CASE x \in valued
          BY <3>1, <4>1, <4>2, <5>1 DEF Kept, Known, Walk
        <5>2. CASE x \notin valued
          BY <3>1, <4>1, <5>2 DEF Complete, Agrees
        <5> QED
          BY <5>1, <5>2
      <4>4. FileCovered(changes, x)
        BY <3>2, <4>1, <4>2, <4>3
      <4> QED
        BY <3>3, <4>1, <4>3, <4>4 DEF FileCovered, Covered
    <3> QED
      BY <3>4, <3>5
  <2> QED
    BY <2>1, <2>2
<1> QED
  BY <1>1, DoneInvariant, PTL

\* Wherever a commit is, what the session had deleted or overwritten is not seen again.
THEOREM NothingBackTheorem == Spec => []NothingBack
<1>1. ASSUME TypeInv, ChangeInv, DoneInv PROVE NothingBack
  <2>1. CASE pc = "wiped"
    BY <1>1, <2>1, WipedView DEF NothingBack
  <2>2. CASE pc # "wiped"
    BY <1>1, <2>2 DEF ChangeInv, Faithful, NothingBack
  <2> QED
    BY <2>1, <2>2
<1> QED
  BY <1>1, DoneInvariant, PTL

\* A commit's caller works from operations that tell exactly what the session sees from
\* the active configuration, whatever an earlier commit left of the changes.
THEOREM ReadRightTheorem == Spec => []ReadRight
<1>1. ASSUME TypeInv, ChangeInv, DoneInv PROVE ReadRight
  <2> SUFFICES ASSUME pc = "read", done = {} PROVE ReadRight
    BY DEF ReadRight
  <2>1. /\ Complete /\ Known /\ Walk /\ View = seen /\ active = before
        /\ seen \in Plain /\ Sound(seen) /\ before \in Plain /\ Sound(before)
    BY <1>1 DEF DoneInv, ChangeInv, Ending, TypeInv, Rest
  <2>2. \A p \in DOMAIN op : op[p] = CASE p \notin seen.dir -> "DEL"
                                      [] p \in seen.dir \ before.dir -> "CREATE"
                                      [] OTHER -> "NO_OP"
    <3> SUFFICES ASSUME NEW p \in DOMAIN op
                 PROVE  op[p] = CASE p \notin seen.dir -> "DEL"
                                  [] p \in seen.dir \ before.dir -> "CREATE"
                                  [] OTHER -> "NO_OP"
      OBVIOUS
    <3>1. op[p] \in Op
      BY <2>1 DEF Walk
    <3>2. /\ op[p] = "DEL" => p \notin seen.dir
          /\ op[p] = "CREATE" => p \in seen.dir \ before.dir
          /\ op[p] = "NO_OP" => p \in seen.dir /\ p \in before.dir
      BY <2>1 DEF Known, Complete
    <3> QED
      BY <3>1, <3>2 DEF Op
  <2>3. \A x \in valued : LET o == ValueOperations(x) IN
               /\ {v \in DOMAIN o : o[v] # "DEL"} = seen.val[x]
               /\ {v \in DOMAIN o : o[v] \in {"DEL", "NO_OP"}} \subseteq before.val[x]
    BY <2>1, ValuesTell
  <2>4. ASSUME NEW x \in Leaf
        PROVE  \/ seen.val[x] = before.val[x] \/ x \in valued
               \/ \E q \in DOMAIN op : op[q] = "DEL" /\ x \in At(q)
    <3>1. CASE x \in seen.dir
      BY <2>1, <3>1 DEF Complete
    <3>2. CASE x \notin seen.dir
      BY <2>1, <3>2 DEF Complete, Sound
    <3> QED
      BY <3>1, <3>2
  <2> QED
    BY <2>1, <2>2, <2>3, <2>4 DEF Complete, ReadRight
<1> QED
  BY <1>1, DoneInvariant, PTL
============================================================================
