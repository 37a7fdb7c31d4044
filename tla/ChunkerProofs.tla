--------------------------- MODULE ChunkerProofs ---------------------------
(* Theorems about Chunker for every value of its constants.                *)
EXTENDS Chunker, SequenceTheorems, TLAPS

----------------------------------------------------------------------------
(* Types *)

\* What write() does to the connections waiting keeps them connections.
LEMMA WriteType ==
  ASSUME NEW c \in Client, NEW msg \in {"empty", "start", "update"},
         listenq \in Seq(Conn), Write(c, msg)
  PROVE  listenq' \in Seq(Conn)
<1> DEFINE q == [i \in 1..Len(listenq) |->
                   IF listenq[i].client = c /\ listenq[i].msg = "open"
                   THEN [listenq[i] EXCEPT !.msg = msg] ELSE listenq[i]]
<1>1. Len(listenq) \in Nat
  BY LenProperties
<1>2. ASSUME NEW i \in 1..Len(listenq)
      PROVE  q[i] \in Conn
  <2>1. listenq[i] \in Conn
    BY ElementOfSeq
  <2>2. [listenq[i] EXCEPT !.msg = msg] \in Conn
    BY <2>1 DEF Conn
  <2> QED
    BY <2>1, <2>2
<1>3. q \in Seq(Conn)
  BY <1>1, <1>2, IsASeq
<1> QED
  BY <1>3 DEF Write

\* connect() appends a connection, or changes nothing.
LEMMA ConnectType ==
  ASSUME NEW c \in Client, listenq \in Seq(Conn), Connect(c)
  PROVE  listenq' \in Seq(Conn)
<1> DEFINE new == [client |-> c, token |-> TokenOf[c], msg |-> "open"]
<1>1. new \in Conn
  BY ConstantsOK DEF ConstantsOK, Conn
<1>2. Append(listenq, new) \in Seq(Conn)
  BY <1>1, AppendProperties
<1> QED
  BY <1>2 DEF Connect

\* accept() takes the first connection.
LEMMA AcceptType ==
  ASSUME listenq \in Seq(Conn), NEW M, Accept(M)
  PROVE  listenq' \in Seq(Conn) /\ Head(listenq).token \in Token
<1>1. listenq # <<>> /\ listenq' = Tail(listenq)
  BY DEF Accept
<1>2. Head(listenq) \in Conn /\ Tail(listenq) \in Seq(Conn)
  BY <1>1, HeadTailProperties
<1>3. Head(listenq).token \in Token
  BY <1>2 DEF Conn
<1> QED
  BY <1>1, <1>2, <1>3

LEMMA Numbers ==
  /\ MaxGroup \in Nat /\ MaxOut \in Nat /\ MaxRuns \in Nat /\ MaxPauses \in Nat
  /\ KillTimeout \in Nat
BY ConstantsOK DEF ConstantsOK

\* The values the actions write.
LEMMA Zeros == /\ 0 \in 0..(KillTimeout + 1) /\ 0 \in 0..MaxGroup /\ 0 \in Unit
               /\ NoChunk \in Chunk /\ Nothing \in [ChunkNo -> Chunk]
               /\ [grp |-> 0, to |-> 0] \in [grp: 0..MaxGroup, to: Unit]
BY Numbers DEF Unit, NoChunk, Chunk, Nothing

LEMMA OlderType ==
  ASSUME NEW a \in [Token -> 0..(KillTimeout + 1)]
  PROVE  Older(a) \in [Token -> 0..(KillTimeout + 1)]
BY Numbers DEF Older

LEMMA KillType ==
  ASSUME TypeOK, NEW dead, Kill(dead)
  PROVE  wpc' \in [Group -> WriterPc] /\ rpc' \in [Group -> ReaderPc]
BY DEF TypeOK, Kill, WriterPc, ReaderPc

LEMMA ForkType ==
  ASSUME TypeOK, NEW t \in Token, NEW dead, Fork(t, dead)
  PROVE  /\ forked + 1 \in Group
         /\ forked' \in 0..MaxGroup /\ tokOf' \in [Group -> Token]
         /\ wpc' \in [Group -> WriterPc] /\ rpc' \in [Group -> ReaderPc]
<1>1. forked \in 0..MaxGroup /\ forked + 1 \in Group
  BY Numbers DEF TypeOK, Fork, Group
<1>2. forked' \in 0..MaxGroup /\ tokOf' \in [Group -> Token]
  BY <1>1, Numbers DEF TypeOK, Fork, Group
<1>3. wpc' \in [Group -> WriterPc] /\ rpc' \in [Group -> ReaderPc]
  BY DEF TypeOK, Fork, WriterPc, ReaderPc
<1> QED
  BY <1>1, <1>2, <1>3

LEMMA UnlinkType ==
  ASSUME TypeOK, NEW T, NEW K, Unlink(T, K)
  PROVE  files' \in [Token -> [ChunkNo -> Chunk]] /\ named' \in [Group -> BOOLEAN]
BY Zeros DEF TypeOK, Unlink

LEMMA CleanType ==
  ASSUME TypeOK, NEW T, Clean(T)
  PROVE  /\ files' \in [Token -> [ChunkNo -> Chunk]] /\ named' \in [Group -> BOOLEAN]
         /\ endBy' \in [Token -> 0..MaxGroup]
BY UnlinkType, Zeros DEF TypeOK, Clean

LEMMA FileType ==
  ASSUME TypeOK, NEW g \in Group, NEW from \in Unit, NEW to \in Unit
  PROVE  [files EXCEPT ![tokOf[g]][ct[g]] = [grp |-> g, from |-> from, to |-> to]]
           \in [Token -> [ChunkNo -> Chunk]]
<1>1. [grp |-> g, from |-> from, to |-> to] \in Chunk
  BY Numbers DEF Chunk, Group
<1> QED
  BY <1>1 DEF TypeOK

LEMMA InitType == Init => TypeOK
<1> SUFFICES ASSUME Init PROVE TypeOK
  OBVIOUS
<1>1. up \in BOOLEAN /\ dpc \in {"idle", "cull"} /\ listenq \in Seq(Conn)
      /\ procColl \subseteq Token /\ culling \subseteq Token
  BY EmptySeq DEF Init
<1>2. /\ age \in [Token -> 0..(KillTimeout + 1)] /\ contact \in [Token -> 0..(KillTimeout + 1)]
      /\ pidFile \in [Token -> 0..MaxGroup] /\ endBy \in [Token -> 0..MaxGroup]
  BY Zeros DEF Init
<1>3. forked \in 0..MaxGroup /\ tokOf \in [Group -> Token]
  BY Zeros, ConstantsOK DEF Init, ConstantsOK
<1>4. wpc \in [Group -> WriterPc] /\ rpc \in [Group -> ReaderPc]
  BY DEF Init, WriterPc, ReaderPc
<1>5. /\ outp \in [Group -> Unit] /\ rd \in [Group -> Unit] /\ wr \in [Group -> Unit]
      /\ ct \in [Group -> Nat] /\ cut \in [Group -> Unit] /\ named \in [Group -> BOOLEAN]
  BY Zeros DEF Init
<1>6. files \in [Token -> [ChunkNo -> Chunk]]
  BY Zeros DEF Init
<1>7. /\ cst \in [Client -> {"off", "polling", "paused"}] /\ next \in [Client -> Nat]
      /\ cpc \in [Client -> CgiPc] /\ seg \in [Client -> Chunk]
      /\ last \in [Client -> [grp: 0..MaxGroup, to: Unit]]
  BY Zeros DEF Init, CgiPc
<1>8. runs \in 0..MaxRuns /\ pauses \in 0..MaxPauses
  BY Numbers DEF Init
<1> QED
  BY <1>1, <1>2, <1>3, <1>4, <1>5, <1>6, <1>7, <1>8 DEF TypeOK

LEMMA DaemonType ==
  ASSUME TypeOK, DaemonStep \/ Shutdown \/ Boot \/ Tick
  PROVE  TypeOK'
<1>1. CASE HandleEmpty
  <2>1. listenq' \in Seq(Conn)
    BY <1>1, AcceptType DEF HandleEmpty, TypeOK
  <2> QED
    BY <1>1, <2>1 DEF HandleEmpty, TypeOK, group, disk, window
<1>2. CASE HandleUpdate
  <2>1. listenq' \in Seq(Conn) /\ Head(listenq).token \in Token
    BY <1>2, AcceptType DEF HandleUpdate, TypeOK
  <2> QED
    BY <1>2, <2>1, Zeros DEF HandleUpdate, TypeOK, group, disk, window
<1>3. CASE HandleRestart
  <2> DEFINE t == Head(listenq).token
  <2>1. listenq' \in Seq(Conn) /\ t \in Token
    BY <1>3, AcceptType DEF HandleRestart, TypeOK
  <2>2. Fork(t, Victims({t})) /\ Clean({t})
    BY <1>3 DEF HandleRestart
  <2>3. contact' \in [Token -> 0..(KillTimeout + 1)]
    BY <1>3, <2>1, Zeros DEF HandleRestart, TypeOK
  <2> HIDE DEF t
  <2> QED
    BY <1>3, <2>1, <2>2, <2>3, ForkType, CleanType DEF HandleRestart, TypeOK, window
<1>4. CASE HandleNew
  <2> DEFINE t == Head(listenq).token
  <2>1. listenq' \in Seq(Conn) /\ t \in Token
    BY <1>4, AcceptType DEF HandleNew, TypeOK
  <2>2. Fork(t, {}) /\ procColl' = procColl \union {t}
    BY <1>4 DEF HandleNew
  <2>3. age' \in [Token -> 0..(KillTimeout + 1)] /\ contact' \in [Token -> 0..(KillTimeout + 1)]
    BY <1>4, <2>1, Zeros DEF HandleNew, TypeOK
  <2> HIDE DEF t
  <2> QED
    BY <1>4, <2>1, <2>2, <2>3, ForkType DEF HandleNew, TypeOK, disk, window
<1>5. CASE HandleNothing
  BY <1>5 DEF HandleNothing, TypeOK, group, disk, window
<1>6. ASSUME NEW t \in Token, CullClean(t)
      PROVE  TypeOK'
  BY <1>6, CleanType DEF CullClean, TypeOK, window
<1>7. ASSUME NEW t \in Token, CullKill(t)
      PROVE  TypeOK'
  BY <1>7, KillType DEF CullKill, TypeOK, disk, window
<1>8. CASE CullDone
  BY <1>8 DEF CullDone, TypeOK, group, disk, window
<1>9. CASE Shutdown
  BY <1>9, EmptySeq, KillType, CleanType DEF Shutdown, TypeOK, window
<1>10. CASE Boot
  BY <1>10, CleanType DEF Boot, TypeOK, window
<1>11. CASE Tick
  BY <1>11, OlderType DEF Tick, TypeOK, group, disk, window
<1> QED
  BY <1>1, <1>2, <1>3, <1>4, <1>5, <1>6, <1>7, <1>8, <1>9, <1>10, <1>11 DEF DaemonStep

LEMMA GroupType ==
  ASSUME TypeOK, NEW g \in Group, WriterStep(g) \/ CommandStep(g) \/ ReaderStep(g)
  PROVE  TypeOK'
<1> USE DEF daemon, disk, window
<1>1. CASE WriterStep(g)
  <2>1. CASE WriterRegister(g)
    <3>1. wpc' \in [Group -> WriterPc]
      BY <2>1 DEF WriterRegister, TypeOK, WriterPc
    <3>2. pidFile' \in [Token -> 0..MaxGroup]
      BY <2>1, Numbers DEF WriterRegister, TypeOK, Group
    <3> QED
      BY <2>1, <3>1, <3>2 DEF WriterRegister, TypeOK
  <2>2. CASE WriterFail(g)
    <3>1. wpc' \in [Group -> WriterPc]
      BY <2>2 DEF WriterFail, TypeOK, WriterPc
    <3> QED
      BY <2>2, <3>1 DEF WriterFail, TypeOK
  <2> QED
    BY <1>1, <2>1, <2>2 DEF WriterStep
<1>2. CASE CommandStep(g)
  <2>1. CASE CommandOutput(g)
    <3>1. outp[g] \in Unit /\ outp \in [Group -> Unit]
      BY DEF TypeOK
    <3>2. outp[g] + 1 \in Unit
      BY <2>1, <3>1, Numbers DEF CommandOutput, Unit
    <3>3. outp' \in [Group -> Unit]
      BY <2>1, <3>1, <3>2 DEF CommandOutput
    <3> QED
      BY <2>1, <3>3 DEF CommandOutput, TypeOK
  <2>2. CASE CommandExit(g)
    <3>1. wpc' \in [Group -> WriterPc]
      BY <2>2 DEF CommandExit, TypeOK, WriterPc
    <3> QED
      BY <2>2, <3>1 DEF CommandExit, TypeOK
  <2> QED
    BY <1>2, <2>1, <2>2 DEF CommandStep
<1>3. CASE ReaderRead(g)
  <2>1. /\ rd \in [Group -> Unit] /\ outp \in [Group -> Unit]
    BY DEF TypeOK
  <2>2. rd' \in [Group -> Unit]
    BY <1>3, <2>1, Numbers DEF ReaderRead, Unit
  <2> QED
    BY <1>3, <2>2, SMTT(30) DEF ReaderRead, TypeOK
<1>4. CASE ReaderCut(g)
  <2>1. rd' \in [Group -> Unit] /\ cut' \in [Group -> Unit] /\ rpc' \in [Group -> ReaderPc]
    <3>1. PICK r \in (rd[g] + 1)..outp[g] : \E u \in (wr[g] + 1)..r :
            rd' = [rd EXCEPT ![g] = r] /\ cut' = [cut EXCEPT ![g] = u]
      BY <1>4 DEF ReaderCut
    <3>2. PICK u \in (wr[g] + 1)..r : rd' = [rd EXCEPT ![g] = r] /\ cut' = [cut EXCEPT ![g] = u]
      BY <3>1
    <3>3. rd[g] \in Unit /\ outp[g] \in Unit /\ wr[g] \in Unit
      BY DEF TypeOK
    <3>4. r \in Unit /\ u \in Unit
      BY <3>1, <3>2, <3>3, Numbers DEF Unit
    <3>5. rpc' \in [Group -> ReaderPc]
      BY <1>4 DEF ReaderCut, TypeOK, ReaderPc
    <3> QED
      BY <3>2, <3>4, <3>5 DEF TypeOK
  <2>2. files' \in [Token -> [ChunkNo -> Chunk]] /\ named' \in [Group -> BOOLEAN]
    BY <1>4, FileType DEF ReaderCut, Open, TypeOK
  <2> QED
    BY <1>4, <2>1, <2>2 DEF ReaderCut, TypeOK
<1>5. CASE ReaderCutFails(g)
  <2>1. rd' \in [Group -> Unit] /\ wr' \in [Group -> Unit]
    <3>1. PICK r \in (rd[g] + 1)..outp[g] : \E u \in (wr[g] + 1)..r :
            rd' = [rd EXCEPT ![g] = r] /\ wr' = [wr EXCEPT ![g] = u]
      BY <1>5 DEF ReaderCutFails
    <3>2. PICK u \in (wr[g] + 1)..r : rd' = [rd EXCEPT ![g] = r] /\ wr' = [wr EXCEPT ![g] = u]
      BY <3>1
    <3>3. rd[g] \in Unit /\ outp[g] \in Unit /\ wr[g] \in Unit
      BY DEF TypeOK
    <3>4. r \in Unit /\ u \in Unit
      BY <3>1, <3>2, <3>3, Numbers DEF Unit
    <3> QED
      BY <3>2, <3>4 DEF TypeOK
  <2> QED
    BY <1>5, <2>1 DEF ReaderCutFails, TypeOK
<1>6. CASE ReaderFill(g)
  <2>1. /\ wr' \in [Group -> Unit] /\ ct' \in [Group -> Nat]
        /\ named' \in [Group -> BOOLEAN] /\ rpc' \in [Group -> ReaderPc]
    BY <1>6 DEF ReaderFill, TypeOK, ReaderPc
  <2>2. files' \in [Token -> [ChunkNo -> Chunk]]
    BY <1>6, FileType DEF ReaderFill, Fill, TypeOK
  <2> QED
    BY <1>6, <2>1, <2>2 DEF ReaderFill, TypeOK
<1>7. CASE ReaderEof(g)
  <2>1. files' \in [Token -> [ChunkNo -> Chunk]] /\ named' \in [Group -> BOOLEAN]
    BY <1>7, FileType DEF ReaderEof, Open, TypeOK
  <2>2. rpc' \in [Group -> ReaderPc]
    BY <1>7 DEF ReaderEof, TypeOK, ReaderPc
  <2> QED
    BY <1>7, <2>1, <2>2 DEF ReaderEof, TypeOK
<1>8. CASE ReaderEofFails(g)
  <2>1. wr' \in [Group -> Unit] /\ rpc' \in [Group -> ReaderPc]
    BY <1>8 DEF ReaderEofFails, TypeOK, ReaderPc
  <2> QED
    BY <1>8, <2>1 DEF ReaderEofFails, TypeOK
<1>9. CASE ReaderLast(g)
  <2>1. wr' \in [Group -> Unit] /\ named' \in [Group -> BOOLEAN] /\ rpc' \in [Group -> ReaderPc]
    BY <1>9 DEF ReaderLast, TypeOK, ReaderPc
  <2>2. files' \in [Token -> [ChunkNo -> Chunk]]
    BY <1>9, FileType DEF ReaderLast, Fill, TypeOK
  <2> QED
    BY <1>9, <2>1, <2>2 DEF ReaderLast, TypeOK
<1>10. CASE ReaderEnd(g)
  <2>1. endBy' \in [Token -> 0..MaxGroup]
    <3>1. g \in 0..MaxGroup /\ endBy \in [Token -> 0..MaxGroup]
      BY Numbers DEF Group, TypeOK
    <3>2. endBy' = endBy \/ endBy' = [endBy EXCEPT ![tokOf[g]] = g]
      BY <1>10 DEF ReaderEnd
    <3> QED
      BY <3>1, <3>2
  <2>2. rpc' \in [Group -> ReaderPc]
    BY <1>10 DEF ReaderEnd, TypeOK, ReaderPc
  <2> QED
    BY <1>10, <2>1, <2>2 DEF ReaderEnd, TypeOK
<1> QED
  BY <1>1, <1>2, <1>3, <1>4, <1>5, <1>6, <1>7, <1>8, <1>9, <1>10 DEF ReaderStep

LEMMA WindowType ==
  ASSUME TypeOK, NEW c \in Client, CgiStep(c) \/ Poll(c) \/ CgiAbort(c) \/ UserStep(c)
  PROVE  TypeOK'
<1> USE DEF daemon, group, disk
<1>1. CASE CgiStart(c)
  BY <1>1, WriteType DEF CgiStart, TypeOK, CgiPc
<1>2. CASE CgiStarted(c)
  <2>1. next' \in [Client -> Nat] /\ last' \in [Client -> [grp: 0..MaxGroup, to: Unit]]
    BY <1>2, Zeros DEF CgiStarted, TypeOK
  <2> QED
    BY <1>2, <2>1 DEF CgiStarted, TypeOK, CgiPc
<1>3. CASE CgiStat(c)
  BY <1>3 DEF CgiStat, TypeOK, CgiPc
<1>4. CASE CgiRead(c)
  <2>1. CASE Present(TokenOf[c], next[c])
    <3>1. files[TokenOf[c]][next[c]] \in Chunk
      BY <2>1, ConstantsOK DEF Present, TypeOK, ConstantsOK
    <3>2. seg' \in [Client -> Chunk]
      <4>1. seg' = [seg EXCEPT ![c] = files[TokenOf[c]][next[c]]]
        BY <1>4, <2>1 DEF CgiRead
      <4>2. seg \in [Client -> Chunk]
        BY DEF TypeOK
      <4> QED
        BY <3>1, <4>1, <4>2
    <3>3. next' \in [Client -> Nat] /\ cpc' \in [Client -> CgiPc]
      <4>1. next' = [next EXCEPT ![c] = @ + 1] /\ cpc' = [cpc EXCEPT ![c] = "remove"]
        BY <1>4, <2>1 DEF CgiRead
      <4>2. next \in [Client -> Nat] /\ cpc \in [Client -> CgiPc]
        BY DEF TypeOK
      <4> QED
        BY <4>1, <4>2 DEF CgiPc
    <3>4. UNCHANGED <<daemon, group, disk, cst, last, runs, pauses>>
      BY <1>4 DEF CgiRead
    <3> QED
      BY <3>2, <3>3, <3>4 DEF TypeOK
  <2>2. CASE ~Present(TokenOf[c], next[c])
    <3>1. cpc' \in [Client -> CgiPc]
      BY <1>4, <2>2 DEF CgiRead, TypeOK, CgiPc
    <3> QED
      BY <1>4, <2>2, <3>1 DEF CgiRead, TypeOK
  <2> QED
    BY <2>1, <2>2
<1>5. CASE CgiRemove(c)
  BY <1>5, UnlinkType DEF CgiRemove, TypeOK, CgiPc
<1>6. CASE CgiStatEnd(c)
  BY <1>6 DEF CgiStatEnd, TypeOK, CgiPc
<1>7. CASE CgiUpdate(c)
  <2>1. listenq' \in Seq(Conn)
    BY <1>7, WriteType DEF CgiUpdate, TypeOK
  <2>2. last' \in [Client -> [grp: 0..MaxGroup, to: Unit]]
    BY <1>7 DEF CgiUpdate, TypeOK, Chunk
  <2>3. seg' \in [Client -> Chunk] /\ cst' \in [Client -> {"off", "polling", "paused"}]
        /\ cpc' \in [Client -> CgiPc]
    BY <1>7, Zeros DEF CgiUpdate, TypeOK, CgiPc
  <2> QED
    BY <1>7, <2>1, <2>2, <2>3 DEF CgiUpdate, TypeOK
<1>8. CASE Poll(c)
  BY <1>8, ConnectType DEF Poll, TypeOK, CgiPc
<1>9. CASE CgiAbort(c)
  <2>1. listenq' \in Seq(Conn)
    BY <1>9, WriteType DEF CgiAbort, TypeOK
  <2> QED
    BY <1>9, <2>1, Zeros DEF CgiAbort, TypeOK, CgiPc
<1>10. CASE Start(c)
  <2>1. runs' \in 0..MaxRuns
    BY <1>10, Numbers DEF Start, TypeOK
  <2> QED
    BY <1>10, <2>1, ConnectType DEF Start, TypeOK, CgiPc
<1>11. CASE Pause(c)
  <2>1. pauses' \in 0..MaxPauses
    BY <1>11, Numbers DEF Pause, TypeOK
  <2> QED
    BY <1>11, <2>1 DEF Pause, TypeOK
<1>12. CASE Resume(c)
  BY <1>12 DEF Resume, TypeOK
<1> QED
  BY <1>1, <1>2, <1>3, <1>4, <1>5, <1>6, <1>7, <1>8, <1>9, <1>10, <1>11, <1>12
     DEF CgiStep, UserStep

LEMMA NextType == TypeOK /\ [Next]_vars => TypeOK'
<1>1. TypeOK /\ Next => TypeOK'
  BY DaemonType, GroupType, WindowType DEF Next
<1>2. TypeOK /\ UNCHANGED vars => TypeOK'
  BY DEF TypeOK, vars, daemon, group, disk, window
<1> QED
  BY <1>1, <1>2

\* Every variable keeps its type, whatever the daemon, the groups and the requests do.
THEOREM TypeInvariant == Spec => []TypeOK
  BY InitType, NextType, PTL DEF Spec

----------------------------------------------------------------------------
(* The end marker *)

\* Groups not forked yet have no process and no pid file names them; a reader past
\* its loop has seen its command exit and drained the pipe.
PidForked == \A t \in Token : pidFile[t] <= forked
Unforked == \A g \in Group : g > forked => wpc[g] = "none" /\ rpc[g] = "none"
ReaderDone == \A g \in Group :
  /\ rpc[g] \in {"last", "end"} => wpc[g] = "gone" /\ rd[g] = outp[g]
  /\ rpc[g] = "end" => wr[g] = rd[g]

EndInv == PidForked /\ Unforked /\ ReaderDone /\ EndMarkerFinal

\* A step that leaves gone groups alone and makes no end marker.
LEMMA MarkersKept ==
  ASSUME TypeOK, EndMarkerFinal,
         \A g \in Group : wpc[g] = "gone" /\ rpc[g] = "gone" =>
           wpc'[g] = "gone" /\ rpc'[g] = "gone" /\ wr'[g] = wr[g] /\ outp'[g] = outp[g],
         \A t \in Token : endBy'[t] = 0 \/ endBy'[t] = endBy[t]
  PROVE  EndMarkerFinal'
<1> SUFFICES ASSUME NEW t \in Token, endBy'[t] # 0
             PROVE  LET g == endBy'[t] IN
                    wpc'[g] = "gone" /\ rpc'[g] = "gone" /\ wr'[g] = outp'[g]
  BY DEF EndMarkerFinal
<1>1. endBy'[t] = endBy[t] /\ endBy[t] \in Group
  BY Numbers DEF TypeOK, Group
<1>2. wpc[endBy[t]] = "gone" /\ rpc[endBy[t]] = "gone" /\ wr[endBy[t]] = outp[endBy[t]]
  BY <1>1 DEF EndMarkerFinal
<1> QED
  BY <1>1, <1>2

\* What the daemon may do to the groups: kill those that were forked, fork the next.
GroupFate(g) ==
  \/ wpc'[g] = wpc[g] /\ rpc'[g] = rpc[g]
  \/ g <= forked /\ wpc'[g] = "gone" /\ rpc'[g] = "gone"
  \/ g = forked + 1 /\ g = forked' /\ wpc'[g] = "start" /\ rpc'[g] = "loop"
DaemonFate ==
  /\ forked' = forked \/ forked' = forked + 1
  /\ \A g \in Group : GroupFate(g)
  /\ UNCHANGED <<outp, rd, wr, ct, cut>>

LEMMA KillFate ==
  ASSUME TypeOK, PidForked, NEW T \in SUBSET Token, Kill(Victims(T))
  PROVE  \A g \in Group : GroupFate(g)
BY DEF TypeOK, PidForked, Kill, Victims, GroupFate, Group

LEMMA ForkFate ==
  ASSUME TypeOK, PidForked, NEW T \in SUBSET Token, NEW t, Fork(t, Victims(T))
  PROVE  forked' = forked + 1 /\ \A g \in Group : GroupFate(g)
BY DEF TypeOK, PidForked, Fork, Victims, GroupFate, Group

LEMMA NoVictims == Victims({}) = {}
BY DEF Victims

LEMMA CleanMarkers ==
  ASSUME TypeOK, NEW T, Clean(T)
  PROVE  \A t \in Token : endBy'[t] = 0 \/ endBy'[t] = endBy[t]
BY DEF Clean

LEMMA DaemonGroups ==
  ASSUME TypeOK, PidForked, DaemonStep \/ Shutdown \/ Boot \/ Tick
  PROVE  /\ DaemonFate
         /\ \A t \in Token : endBy'[t] = 0 \/ endBy'[t] = endBy[t]
         /\ UNCHANGED <<pidFile, window>>
<1> USE DEF daemon, group, disk, DaemonFate
<1>1. CASE UNCHANGED <<pidFile, group, disk, window>>
  BY <1>1 DEF GroupFate
<1>2. CASE HandleRestart
  <2>1. Fork(Head(listenq).token, Victims({Head(listenq).token})) /\ Clean({Head(listenq).token})
    BY <1>2 DEF HandleRestart
  <2>2. Head(listenq).token \in Token
    BY <1>2, AcceptType DEF HandleRestart, TypeOK
  <2>3. forked' = forked + 1 /\ \A g \in Group : GroupFate(g)
    BY <2>1, <2>2, ForkFate
  <2>4. UNCHANGED <<pidFile, outp, rd, wr, ct, cut, window>>
    BY <1>2 DEF HandleRestart
  <2> QED
    BY <2>1, <2>3, <2>4, CleanMarkers
<1>3. CASE HandleNew
  <2>1. Fork(Head(listenq).token, Victims({}))
    BY <1>3, NoVictims DEF HandleNew
  <2>2. forked' = forked + 1 /\ \A g \in Group : GroupFate(g)
    BY <2>1, ForkFate
  <2>3. UNCHANGED <<pidFile, outp, rd, wr, ct, cut, disk, window>>
    BY <1>3 DEF HandleNew
  <2> QED
    BY <2>2, <2>3
<1>4. ASSUME NEW t \in Token, CullClean(t)
      PROVE  /\ DaemonFate
             /\ \A u \in Token : endBy'[u] = 0 \/ endBy'[u] = endBy[u]
             /\ UNCHANGED <<pidFile, window>>
  BY <1>4, CleanMarkers DEF CullClean, GroupFate
<1>5. ASSUME NEW t \in Token, CullKill(t)
      PROVE  DaemonFate /\ UNCHANGED <<pidFile, disk, window>>
  BY <1>5, KillFate DEF CullKill
<1>6. CASE Shutdown
  BY <1>6, KillFate, CleanMarkers DEF Shutdown, TypeOK
<1>7. CASE Boot
  BY <1>7, CleanMarkers DEF Boot, GroupFate
<1> QED
  <2>1. HandleEmpty \/ HandleUpdate \/ HandleNothing \/ CullDone \/ Tick
          => UNCHANGED <<pidFile, group, disk, window>>
    BY DEF HandleEmpty, HandleUpdate, HandleNothing, CullDone, Tick
  <2> QED
    BY <1>1, <1>2, <1>3, <1>4, <1>5, <1>6, <1>7, <2>1 DEF DaemonStep

LEMMA DaemonEnd ==
  ASSUME TypeOK, EndInv, DaemonStep \/ Shutdown \/ Boot \/ Tick
  PROVE  EndInv'
<1>1. DaemonFate /\ UNCHANGED pidFile /\ \A t \in Token : endBy'[t] = 0 \/ endBy'[t] = endBy[t]
  BY DaemonGroups DEF EndInv
<1>2. PidForked'
  BY <1>1 DEF DaemonFate, EndInv, PidForked, TypeOK
<1>3. Unforked'
  BY <1>1 DEF DaemonFate, GroupFate, EndInv, Unforked, TypeOK, Group
<1>4. ReaderDone'
  BY <1>1 DEF DaemonFate, GroupFate, EndInv, ReaderDone
<1>5. \A g \in Group : wpc[g] = "gone" /\ rpc[g] = "gone" =>
        wpc'[g] = "gone" /\ rpc'[g] = "gone" /\ wr'[g] = wr[g] /\ outp'[g] = outp[g]
  BY <1>1 DEF DaemonFate, GroupFate, EndInv, Unforked, TypeOK, Group
<1>6. EndMarkerFinal'
  BY <1>1, <1>5, MarkersKept DEF EndInv
<1> QED
  BY <1>2, <1>3, <1>4, <1>6 DEF EndInv

LEMMA GroupEnd ==
  ASSUME TypeOK, EndInv, NEW g \in Group, WriterStep(g) \/ CommandStep(g) \/ ReaderStep(g)
  PROVE  EndInv'
<1> USE DEF daemon, disk, window
<1>1. CASE WriterStep(g) \/ CommandStep(g)
  <2>1. /\ wpc[g] \in {"start", "run"} /\ \A h \in Group \ {g} : wpc'[h] = wpc[h]
        /\ \A h \in Group \ {g} : outp'[h] = outp[h]
        /\ wpc'[g] \in {"run", "gone"} /\ UNCHANGED <<forked, rpc, rd, wr, endBy>>
    BY <1>1 DEF WriterStep, CommandStep, WriterRegister, WriterFail, CommandOutput, CommandExit,
                TypeOK
  <2>2. g <= forked
    BY <2>1 DEF EndInv, Unforked, TypeOK, Group
  <2>3. \A t \in Token : pidFile'[t] = pidFile[t] \/ pidFile'[t] = g
    BY <1>1 DEF WriterStep, CommandStep, WriterRegister, WriterFail, CommandOutput, CommandExit,
                TypeOK
  <2>4. PidForked'
    BY <2>1, <2>2, <2>3 DEF EndInv, PidForked
  <2>5. Unforked'
    BY <2>1, <2>2 DEF EndInv, Unforked, Group, TypeOK
  <2>6. ReaderDone'
    BY <2>1 DEF EndInv, ReaderDone
  <2>7. EndMarkerFinal'
    BY <2>1, MarkersKept DEF EndInv
  <2> QED
    BY <2>4, <2>5, <2>6, <2>7 DEF EndInv
<1>2. CASE ReaderStep(g)
  <2>1. /\ rpc[g] \in {"loop", "chunk", "last", "end"}
        /\ \A h \in Group \ {g} : rpc'[h] = rpc[h] /\ rd'[h] = rd[h] /\ wr'[h] = wr[h]
        /\ UNCHANGED <<forked, pidFile, wpc, outp>>
    BY <1>2 DEF ReaderStep, ReaderRead, ReaderCut, ReaderCutFails, ReaderFill, ReaderEof,
                ReaderEofFails, ReaderLast, ReaderEnd, AtEof, TypeOK
  <2>2. PidForked'
    BY <2>1 DEF EndInv, PidForked
  <2>3. g <= forked
    BY <2>1 DEF EndInv, Unforked, TypeOK, Group
  <2>4. Unforked'
    BY <2>1, <2>3 DEF EndInv, Unforked, Group, TypeOK
  <2>5. /\ rpc'[g] \in {"last", "end"} => wpc'[g] = "gone" /\ rd'[g] = outp'[g]
        /\ rpc'[g] = "end" => wr'[g] = rd'[g]
    <3>1. CASE ReaderRead(g) \/ ReaderCutFails(g)
      BY <3>1 DEF ReaderRead, ReaderCutFails
    <3>2. CASE ReaderCut(g) \/ ReaderFill(g) \/ ReaderEnd(g)
      BY <3>2 DEF ReaderCut, ReaderFill, ReaderEnd, TypeOK
    <3>3. CASE ReaderEof(g) \/ ReaderEofFails(g)
      BY <3>3 DEF ReaderEof, ReaderEofFails, AtEof, TypeOK
    <3>4. CASE ReaderLast(g)
      BY <3>4 DEF ReaderLast, EndInv, ReaderDone, TypeOK
    <3> QED
      BY <1>2, <3>1, <3>2, <3>3, <3>4 DEF ReaderStep
  <2>6. ReaderDone'
    BY <2>1, <2>5 DEF EndInv, ReaderDone
  <2>7. EndMarkerFinal'
    <3>1. CASE ReaderEnd(g)
      <4>1. rpc'[g] = "gone" /\ wpc'[g] = "gone" /\ wr'[g] = outp'[g]
        BY <3>1 DEF ReaderEnd, EndInv, ReaderDone, TypeOK
      <4>2. \A t \in Token : endBy'[t] = endBy[t] \/ endBy'[t] = g
        BY <3>1 DEF ReaderEnd, TypeOK
      <4>3. \A t \in Token : endBy[t] # 0 => endBy[t] # g
        BY <2>1 DEF EndInv, EndMarkerFinal
      <4>4. \A t \in Token : endBy[t] # 0 => endBy[t] \in Group
        BY Numbers DEF TypeOK, Group
      <4> QED
        BY <2>1, <4>1, <4>2, <4>3, <4>4 DEF EndInv, EndMarkerFinal
    <3>2. CASE ~ReaderEnd(g)
      <4>1. UNCHANGED endBy
        BY <1>2, <3>2 DEF ReaderStep, ReaderRead, ReaderCut, ReaderCutFails, ReaderFill,
                          ReaderEof, ReaderEofFails, ReaderLast
      <4> QED
        BY <2>1, <4>1, MarkersKept DEF EndInv
    <3> QED
      BY <3>1, <3>2
  <2> QED
    BY <2>2, <2>4, <2>6, <2>7 DEF EndInv
<1> QED
  BY <1>1, <1>2

LEMMA WindowEnd ==
  ASSUME TypeOK, EndInv, NEW c \in Client, CgiStep(c) \/ Poll(c) \/ CgiAbort(c) \/ UserStep(c)
  PROVE  EndInv'
<1>1. UNCHANGED <<pidFile, forked, wpc, rpc, outp, rd, wr, endBy>>
  BY DEF CgiStep, UserStep, CgiStart, CgiStarted, CgiStat, CgiRead, CgiRemove, CgiStatEnd,
         CgiUpdate, Poll, CgiAbort, Start, Pause, Resume, daemon, group, disk
<1> QED
  BY <1>1 DEF EndInv, PidForked, Unforked, ReaderDone, EndMarkerFinal

LEMMA EndInvariant == Spec => []EndInv
<1>1. Init => EndInv
  BY Numbers DEF Init, EndInv, PidForked, Unforked, ReaderDone, EndMarkerFinal
<1>2. TypeOK /\ EndInv /\ [Next]_vars => EndInv'
  <2> SUFFICES ASSUME TypeOK, EndInv, [Next]_vars
               PROVE  EndInv'
    OBVIOUS
  <2>1. CASE Next
    BY <2>1, DaemonEnd, GroupEnd, WindowEnd DEF Next
  <2>2. CASE UNCHANGED vars
    BY <2>2 DEF vars, daemon, group, disk, EndInv, PidForked, Unforked, ReaderDone, EndMarkerFinal
  <2> QED
    BY <2>1, <2>2
<1> QED
  BY <1>1, <1>2, TypeInvariant, PTL DEF Spec

\* The end marker is its reader's last act, after all of the command's output: a
\* window is told the end only of a command that is over (process_chunk_end).
THEOREM EndMarkerTheorem == Spec => []EndMarkerFinal
<1>1. EndInv => EndMarkerFinal
  BY DEF EndInv
<1> QED
  BY <1>1, EndInvariant, PTL

----------------------------------------------------------------------------
(* Order of the pages *)

\* The buffer: what is filed was read, and a cut is within it.
BufferOK ==
  \A g \in Group : /\ wr[g] <= rd[g]
                   /\ rpc[g] = "chunk" => wr[g] <= cut[g] /\ cut[g] <= rd[g]

\* The files of a group: none ahead of its reader, and sorted by their numbers.
FilesOK == \A t \in Token : \A k \in ChunkNo : LET f == files[t][k] IN
  f.grp # 0 => f.from <= f.to /\ f.to <= wr[f.grp] /\ k <= ct[f.grp]
FilesSorted == \A t \in Token : \A j, k \in ChunkNo :
  j < k /\ files[t][j].grp # 0 /\ files[t][j].grp = files[t][k].grp
    => files[t][j].to <= files[t][k].from

\* Unit u of group g lies before every page the window will still ask for.
Before(c, g, u) ==
  g # 0 => /\ u <= wr[g]
           /\ \A k \in ChunkNo : k >= next[c] /\ files[TokenOf[c]][k].grp = g
                                  => u <= files[TokenOf[c]][k].from

\* What a window was shown and what its request holds lie before what it will read.
ShownBefore == \A c \in Client : Before(c, last[c].grp, last[c].to)
HeldBefore == \A c \in Client : Before(c, seg[c].grp, seg[c].to)

\* A request holds a page only after it has read one, and only while its window polls.
Holding == \A c \in Client :
  /\ seg[c].grp # 0 => seg[c].from <= seg[c].to /\ cpc[c] \in {"remove", "update"}
  /\ cpc[c] \in {"stat", "read", "remove", "statEnd", "update", "end"} => cst[c] = "polling"

OrderInv == BufferOK /\ FilesOK /\ FilesSorted /\ ShownBefore /\ HeldBefore /\ Holding /\ InOrder

\* The numbers among the values of the variables.
LEMMA Numeric ==
  ASSUME TypeOK
  PROVE  /\ \A g \in Group : wr[g] \in Int /\ rd[g] \in Int /\ cut[g] \in Int /\ ct[g] \in Int
         /\ \A t \in Token : \A k \in ChunkNo :
              files[t][k].grp \in 0..MaxGroup /\ files[t][k].from \in Int /\ files[t][k].to \in Int
         /\ \A c \in Client :
              /\ next[c] \in Int /\ last[c].grp \in 0..MaxGroup /\ last[c].to \in Int
              /\ seg[c].grp \in 0..MaxGroup /\ seg[c].from \in Int /\ seg[c].to \in Int
         /\ \A h \in 0..MaxGroup : h # 0 => h \in Group
         /\ \A k \in ChunkNo : k \in Int
         /\ \A c \in Client : TokenOf[c] \in Token
<1>1. \A u \in Unit : u \in Int
  BY Numbers DEF Unit
<1>2. \A f \in Chunk : f.grp \in 0..MaxGroup /\ f.from \in Int /\ f.to \in Int
  BY <1>1 DEF Chunk
<1>3. \A k \in ChunkNo : k \in Int
  BY Numbers DEF ChunkNo
<1>4. \A h \in 0..MaxGroup : h # 0 => h \in Group
  BY Numbers DEF Group
<1>5. \A c \in Client : TokenOf[c] \in Token
  BY ConstantsOK DEF ConstantsOK
<1>6. \A g \in Group : wr[g] \in Int /\ rd[g] \in Int /\ cut[g] \in Int /\ ct[g] \in Int
  BY <1>1 DEF TypeOK
<1>7. \A t \in Token : \A k \in ChunkNo :
        files[t][k].grp \in 0..MaxGroup /\ files[t][k].from \in Int /\ files[t][k].to \in Int
  BY <1>2 DEF TypeOK
<1>8. \A c \in Client :
        /\ next[c] \in Int /\ last[c].grp \in 0..MaxGroup /\ last[c].to \in Int
        /\ seg[c].grp \in 0..MaxGroup /\ seg[c].from \in Int /\ seg[c].to \in Int
  BY <1>1, <1>2 DEF TypeOK
<1> QED
  BY <1>3, <1>4, <1>5, <1>6, <1>7, <1>8

\* How files come and go: removed, or put by a reader at its chunk_ct with units it has
\* not filed before; what a reader has filed and its chunk_ct only grow.
PutFile(f, k) ==
  /\ f.grp \in Group /\ f.from = wr[f.grp] /\ f.from <= f.to /\ f.to <= wr'[f.grp]
  /\ f.to \in Int /\ k = ct[f.grp]
FilesStep ==
  /\ \A g \in Group : wr'[g] \in Int /\ wr[g] <= wr'[g] /\ ct'[g] \in Int /\ ct[g] <= ct'[g]
  /\ \A t \in Token : \A k \in ChunkNo :
       \/ files'[t][k] = files[t][k]
       \/ files'[t][k].grp = 0
       \/ PutFile(files'[t][k], k)

LEMMA FilesKept ==
  ASSUME TypeOK, FilesOK, FilesSorted, FilesStep
  PROVE  FilesOK' /\ FilesSorted'
<1>1. FilesOK'
  BY Numeric DEF FilesOK, FilesStep, PutFile
<1>2. FilesSorted'
  <2> SUFFICES ASSUME NEW t \in Token, NEW j \in ChunkNo, NEW k \in ChunkNo, j < k,
                      files'[t][j].grp # 0, files'[t][j].grp = files'[t][k].grp
               PROVE  files'[t][j].to <= files'[t][k].from
    BY DEF FilesSorted
  <2>1. CASE files'[t][j] = files[t][j] /\ files'[t][k] = files[t][k]
    BY <2>1 DEF FilesSorted
  <2>2. CASE files'[t][j] = files[t][j] /\ PutFile(files'[t][k], k)
    BY <2>2 DEF PutFile, FilesOK
  <2>3. CASE PutFile(files'[t][j], j) /\ files'[t][k] = files[t][k]
    BY <2>3, Numeric DEF PutFile, FilesOK
  <2>4. CASE PutFile(files'[t][j], j) /\ PutFile(files'[t][k], k)
    BY <2>4, Numeric DEF PutFile
  <2> QED
    BY <2>1, <2>2, <2>3, <2>4 DEF FilesStep
<1> QED
  BY <1>1, <1>2

LEMMA BeforeKept ==
  ASSUME TypeOK, FilesStep, NEW c \in Client, NEW g \in 0..MaxGroup, NEW u \in Int,
         Before(c, g, u), next'[c] \in Int, next[c] <= next'[c]
  PROVE  g # 0 => /\ u <= wr'[g]
                  /\ \A k \in ChunkNo : k >= next'[c] /\ files'[TokenOf[c]][k].grp = g
                                         => u <= files'[TokenOf[c]][k].from
<1> SUFFICES ASSUME g # 0
             PROVE  /\ u <= wr'[g]
                    /\ \A k \in ChunkNo : k >= next'[c] /\ files'[TokenOf[c]][k].grp = g
                                         => u <= files'[TokenOf[c]][k].from
  OBVIOUS
<1>1. g \in Group /\ u <= wr[g]
  BY Numeric DEF Before
<1>2. u <= wr'[g]
  BY <1>1, Numeric DEF FilesStep
<1>3. ASSUME NEW k \in ChunkNo, k >= next'[c], files'[TokenOf[c]][k].grp = g
      PROVE  u <= files'[TokenOf[c]][k].from
  <2>1. CASE files'[TokenOf[c]][k] = files[TokenOf[c]][k]
    BY <1>3, <2>1, Numeric DEF Before
  <2>2. CASE PutFile(files'[TokenOf[c]][k], k)
    BY <1>1, <1>3, <2>2 DEF PutFile
  <2> QED
    BY <1>3, <2>1, <2>2, Numeric DEF FilesStep
<1> QED
  BY <1>2, <1>3

\* A step that shows and reads nothing, and asks for no other page.
LEMMA OrderKept ==
  ASSUME TypeOK, OrderInv, FilesStep, BufferOK', Holding', UNCHANGED <<next, seg, last>>
  PROVE  OrderInv'
<1>1. FilesOK' /\ FilesSorted'
  BY FilesKept DEF OrderInv
<1>2. ShownBefore'
  <2> SUFFICES ASSUME NEW c \in Client
               PROVE  Before(c, last[c].grp, last[c].to)'
    BY DEF ShownBefore
  <2>1. Before(c, last[c].grp, last[c].to)
    BY DEF OrderInv, ShownBefore
  <2>2. /\ last[c].grp \in 0..MaxGroup /\ last[c].to \in Int
        /\ next'[c] \in Int /\ next[c] <= next'[c]
    BY Numeric
  <2> QED
    BY <2>1, <2>2, BeforeKept DEF Before
<1>3. HeldBefore'
  <2> SUFFICES ASSUME NEW c \in Client
               PROVE  Before(c, seg[c].grp, seg[c].to)'
    BY DEF HeldBefore
  <2>1. Before(c, seg[c].grp, seg[c].to)
    BY DEF OrderInv, HeldBefore
  <2>2. /\ seg[c].grp \in 0..MaxGroup /\ seg[c].to \in Int
        /\ next'[c] \in Int /\ next[c] <= next'[c]
    BY Numeric
  <2> QED
    BY <2>1, <2>2, BeforeKept DEF Before
<1>4. InOrder'
  BY DEF OrderInv, InOrder
<1> QED
  BY <1>1, <1>2, <1>3, <1>4 DEF OrderInv

\* Steps that only remove files.
LEMMA UnlinkStep ==
  ASSUME TypeOK, UNCHANGED <<wr, ct>>,
         UNCHANGED files \/ \E T, K : Unlink(T, K)
  PROVE  FilesStep
<1>1. \A t \in Token : \A k \in ChunkNo : files'[t][k] = files[t][k] \/ files'[t][k].grp = 0
  BY DEF Unlink, NoChunk
<1> QED
  BY <1>1, Numeric DEF FilesStep

LEMMA DaemonOrder ==
  ASSUME TypeOK, OrderInv, PidForked, DaemonStep \/ Shutdown \/ Boot \/ Tick
  PROVE  OrderInv'
<1>1. DaemonFate /\ UNCHANGED window
  BY DaemonGroups
<1>2. UNCHANGED files \/ \E T, K : Unlink(T, K)
  BY DEF DaemonStep, HandleEmpty, HandleUpdate, HandleRestart, HandleNew, HandleNothing,
         CullClean, CullKill, CullDone, Shutdown, Boot, Tick, Clean, disk
<1>3. FilesStep
  BY <1>1, <1>2, UnlinkStep DEF DaemonFate
<1>4. BufferOK'
  BY <1>1 DEF DaemonFate, GroupFate, OrderInv, BufferOK
<1>5. Holding' /\ UNCHANGED <<next, seg, last>>
  BY <1>1 DEF window, OrderInv, Holding
<1> QED
  BY <1>3, <1>4, <1>5, OrderKept

\* The open chunk of a reader is put where its name is linked.
LEMMA PutStep ==
  ASSUME TypeOK, NEW g \in Group, NEW u \in Int, wr[g] <= u, u <= wr'[g],
         wr'[g] \in Int, ct'[g] \in Int, ct[g] <= ct'[g],
         \A h \in Group \ {g} : wr'[h] = wr[h] /\ ct'[h] = ct[h],
         \/ UNCHANGED files
         \/ files' = [files EXCEPT ![tokOf[g]][ct[g]] = [grp |-> g, from |-> wr[g], to |-> u]]
  PROVE  FilesStep
<1>1. \A h \in Group : wr'[h] \in Int /\ wr[h] <= wr'[h] /\ ct'[h] \in Int /\ ct[h] <= ct'[h]
  BY Numeric
<1>2. ASSUME NEW t \in Token, NEW k \in ChunkNo, files'[t][k] # files[t][k]
      PROVE  PutFile(files'[t][k], k)
  <2>1. /\ files'[t][k] = [grp |-> g, from |-> wr[g], to |-> u]
        /\ k = ct[g]
    <3>1. files' = [files EXCEPT ![tokOf[g]][ct[g]] = [grp |-> g, from |-> wr[g], to |-> u]]
      BY <1>2
    <3>2. files \in [Token -> [ChunkNo -> Chunk]]
      BY DEF TypeOK
    <3>3. files'[t][k] = IF t = tokOf[g] /\ k = ct[g] THEN [grp |-> g, from |-> wr[g], to |-> u]
                                                    ELSE files[t][k]
      BY <3>1, <3>2
    <3> QED
      BY <1>2, <3>3
  <2> QED
    BY <2>1 DEF PutFile
<1> QED
  BY <1>1, <1>2 DEF FilesStep

LEMMA OpenStep ==
  ASSUME TypeOK, NEW g \in Group, UNCHANGED <<wr, ct>>, Open(g)
  PROVE  FilesStep
<1>1. wr[g] \in Int /\ ct[g] \in Int
  BY Numeric
<1>2. wr[g] <= wr[g] /\ wr[g] <= wr'[g] /\ wr'[g] \in Int /\ ct'[g] \in Int /\ ct[g] <= ct'[g]
  BY <1>1
<1>3. \A h \in Group \ {g} : wr'[h] = wr[h] /\ ct'[h] = ct[h]
  OBVIOUS
<1>4. files' = [files EXCEPT ![tokOf[g]][ct[g]] = [grp |-> g, from |-> wr[g], to |-> wr[g]]]
  BY DEF Open
<1> QED
  BY <1>1, <1>2, <1>3, <1>4, PutStep

LEMMA GroupOrder ==
  ASSUME TypeOK, OrderInv, TypeOK', NEW g \in Group,
         WriterStep(g) \/ CommandStep(g) \/ ReaderStep(g)
  PROVE  OrderInv'
<1> USE DEF daemon, disk
<1>1. UNCHANGED window
  BY DEF WriterStep, CommandStep, WriterRegister, WriterFail, CommandOutput, CommandExit,
         ReaderStep, ReaderRead, ReaderCut, ReaderCutFails, ReaderFill, ReaderEof,
         ReaderEofFails, ReaderLast, ReaderEnd
<1>2. Holding' /\ UNCHANGED <<next, seg, last>>
  BY <1>1 DEF window, OrderInv, Holding
<1>3. wr[g] \in Int /\ rd[g] \in Int /\ cut[g] \in Int /\ ct[g] \in Int
  BY Numeric
<1>4. wr[g] <= rd[g] /\ (rpc[g] = "chunk" => wr[g] <= cut[g] /\ cut[g] <= rd[g])
  BY DEF OrderInv, BufferOK
<1>5. CASE WriterStep(g) \/ CommandStep(g)
  <2>1. UNCHANGED <<rpc, rd, wr, ct, cut, files>>
    BY <1>5 DEF WriterStep, CommandStep, WriterRegister, WriterFail, CommandOutput, CommandExit
  <2>2. BufferOK'
    BY <2>1 DEF OrderInv, BufferOK
  <2>3. FilesStep
    BY <2>1, UnlinkStep
  <2> QED
    BY <1>2, <2>2, <2>3, OrderKept
<1>6. CASE ReaderRead(g) \/ ReaderEnd(g)
  <2>1. UNCHANGED <<wr, ct, cut, files>>
    BY <1>6 DEF ReaderRead, ReaderEnd
  <2>2. /\ rd'[g] \in Int /\ rd[g] <= rd'[g] /\ rpc'[g] # "chunk"
        /\ \A h \in Group \ {g} : rd'[h] = rd[h] /\ rpc'[h] = rpc[h]
    <3>1. CASE ReaderRead(g)
      BY <1>3, <3>1 DEF ReaderRead, TypeOK
    <3>2. CASE ReaderEnd(g)
      BY <1>3, <3>2 DEF ReaderEnd, TypeOK
    <3> QED
      BY <1>6, <3>1, <3>2
  <2>3. BufferOK'
    BY <1>3, <1>4, <2>1, <2>2 DEF OrderInv, BufferOK
  <2>4. FilesStep
    BY <2>1, UnlinkStep
  <2> QED
    BY <1>2, <2>3, <2>4, OrderKept
<1>7. CASE ReaderCut(g)
  <2>1. PICK r \in (rd[g] + 1)..outp[g] : \E u \in (wr[g] + 1)..r :
          rd' = [rd EXCEPT ![g] = r] /\ cut' = [cut EXCEPT ![g] = u]
    BY <1>7 DEF ReaderCut
  <2>2. PICK u \in (wr[g] + 1)..r : rd' = [rd EXCEPT ![g] = r] /\ cut' = [cut EXCEPT ![g] = u]
    BY <2>1
  <2>3. UNCHANGED <<wr, ct>> /\ Open(g) /\ rpc' = [rpc EXCEPT ![g] = "chunk"]
    BY <1>7 DEF ReaderCut
  <2>4. outp[g] \in Int
    BY Numbers DEF TypeOK, Unit
  <2>5. /\ rd'[g] = r /\ cut'[g] = u
        /\ \A h \in Group \ {g} : rd'[h] = rd[h] /\ cut'[h] = cut[h] /\ rpc'[h] = rpc[h]
    BY <2>3, <2>2 DEF TypeOK
  <2>6. BufferOK'
    BY <1>3, <2>3, <2>4, <2>5 DEF OrderInv, BufferOK
  <2>7. FilesStep
    BY <2>3, OpenStep
  <2> QED
    BY <1>2, <2>6, <2>7, OrderKept
<1>8. CASE ReaderCutFails(g)
  <2>1. PICK r \in (rd[g] + 1)..outp[g] : \E u \in (wr[g] + 1)..r :
          rd' = [rd EXCEPT ![g] = r] /\ wr' = [wr EXCEPT ![g] = u]
    BY <1>8 DEF ReaderCutFails
  <2>2. PICK u \in (wr[g] + 1)..r : rd' = [rd EXCEPT ![g] = r] /\ wr' = [wr EXCEPT ![g] = u]
    BY <2>1
  <2>3. UNCHANGED <<rpc, ct, cut, files>> /\ rpc[g] = "loop"
    BY <1>8 DEF ReaderCutFails
  <2>4. outp[g] \in Int
    BY Numbers DEF TypeOK, Unit
  <2>5. rd'[g] = r /\ wr'[g] = u /\ \A h \in Group \ {g} : rd'[h] = rd[h] /\ wr'[h] = wr[h]
    BY <2>2 DEF TypeOK
  <2>6. BufferOK'
    BY <1>3, <2>3, <2>4, <2>5 DEF OrderInv, BufferOK
  <2>7. FilesStep
    <3>1. wr[g] <= wr'[g] /\ wr'[g] \in Int
      BY <1>3, <2>4, <2>5
    <3> QED
      BY <1>3, <2>3, <2>5, <3>1, PutStep
  <2> QED
    BY <1>2, <2>6, <2>7, OrderKept
<1>9. CASE ReaderFill(g)
  <2>1. /\ rpc[g] = "chunk" /\ UNCHANGED <<rd, cut>> /\ Fill(g, cut[g])
        /\ wr' = [wr EXCEPT ![g] = cut[g]] /\ ct' = [ct EXCEPT ![g] = @ + 1]
        /\ rpc' = [rpc EXCEPT ![g] = "loop"]
    BY <1>9 DEF ReaderFill
  <2>2. /\ wr'[g] = cut[g] /\ ct'[g] = ct[g] + 1 /\ rpc'[g] = "loop"
        /\ \A h \in Group \ {g} : wr'[h] = wr[h] /\ ct'[h] = ct[h] /\ rpc'[h] = rpc[h]
    BY <2>1 DEF TypeOK
  <2>3. BufferOK'
    BY <1>4, <2>1, <2>2 DEF OrderInv, BufferOK
  <2>4. FilesStep
    BY <1>3, <1>4, <2>1, <2>2, PutStep DEF Fill
  <2> QED
    BY <1>2, <2>3, <2>4, OrderKept
<1>10. CASE ReaderEof(g)
  <2>1. UNCHANGED <<rd, wr, ct, cut>> /\ Open(g) /\ rpc' = [rpc EXCEPT ![g] = "last"]
    BY <1>10 DEF ReaderEof
  <2>2. rpc'[g] = "last" /\ \A h \in Group \ {g} : rpc'[h] = rpc[h]
    BY <2>1 DEF TypeOK
  <2>3. BufferOK'
    BY <1>4, <2>1, <2>2 DEF OrderInv, BufferOK
  <2>4. FilesStep
    BY <2>1, OpenStep
  <2> QED
    BY <1>2, <2>3, <2>4, OrderKept
<1>11. CASE ReaderEofFails(g)
  <2>1. /\ UNCHANGED <<rd, ct, cut, files>>
        /\ wr' = [wr EXCEPT ![g] = rd[g]] /\ rpc' = [rpc EXCEPT ![g] = "end"]
    BY <1>11 DEF ReaderEofFails
  <2>2. /\ wr'[g] = rd[g] /\ rpc'[g] = "end"
        /\ \A h \in Group \ {g} : wr'[h] = wr[h] /\ rpc'[h] = rpc[h]
    BY <2>1 DEF TypeOK
  <2>3. BufferOK'
    BY <1>3, <1>4, <2>1, <2>2 DEF OrderInv, BufferOK
  <2>4. FilesStep
    BY <1>3, <1>4, <2>1, <2>2, PutStep
  <2> QED
    BY <1>2, <2>3, <2>4, OrderKept
<1>12. CASE ReaderLast(g)
  <2>1. /\ UNCHANGED <<rd, ct, cut>> /\ Fill(g, rd[g])
        /\ wr' = [wr EXCEPT ![g] = rd[g]] /\ rpc' = [rpc EXCEPT ![g] = "end"]
    BY <1>12 DEF ReaderLast
  <2>2. /\ wr'[g] = rd[g] /\ rpc'[g] = "end"
        /\ \A h \in Group \ {g} : wr'[h] = wr[h] /\ rpc'[h] = rpc[h]
    BY <2>1 DEF TypeOK
  <2>3. BufferOK'
    BY <1>3, <1>4, <2>1, <2>2 DEF OrderInv, BufferOK
  <2>4. FilesStep
    BY <1>3, <1>4, <2>1, <2>2, PutStep DEF Fill
  <2> QED
    BY <1>2, <2>3, <2>4, OrderKept
<1> QED
  BY <1>5, <1>6, <1>7, <1>8, <1>9, <1>10, <1>11, <1>12 DEF ReaderStep

\* A step of window c alone: what is required of c suffices.
LEMMA OthersKept ==
  ASSUME TypeOK, OrderInv, FilesStep, BufferOK', NEW c \in Client,
         \A d \in Client \ {c} : /\ next'[d] = next[d] /\ seg'[d] = seg[d] /\ last'[d] = last[d]
                                 /\ cpc'[d] = cpc[d] /\ cst'[d] = cst[d],
         Before(c, last[c].grp, last[c].to)', Before(c, seg[c].grp, seg[c].to)',
         seg'[c].grp # 0 => seg'[c].from <= seg'[c].to /\ cpc'[c] \in {"remove", "update"},
         cpc'[c] \in {"stat", "read", "remove", "statEnd", "update", "end"} => cst'[c] = "polling",
         seg'[c].grp # 0 /\ seg'[c].grp = last'[c].grp => last'[c].to <= seg'[c].from
  PROVE  OrderInv'
<1>1. FilesOK' /\ FilesSorted'
  BY FilesKept DEF OrderInv
<1>2. ShownBefore'
  <2> SUFFICES ASSUME NEW d \in Client \ {c}
               PROVE  Before(d, last[d].grp, last[d].to)'
    BY DEF ShownBefore
  <2>1. Before(d, last[d].grp, last[d].to)
    BY DEF OrderInv, ShownBefore
  <2>2. /\ last[d].grp \in 0..MaxGroup /\ last[d].to \in Int
        /\ next'[d] \in Int /\ next[d] <= next'[d]
    BY Numeric
  <2> QED
    BY <2>1, <2>2, BeforeKept DEF Before
<1>3. HeldBefore'
  <2> SUFFICES ASSUME NEW d \in Client \ {c}
               PROVE  Before(d, seg[d].grp, seg[d].to)'
    BY DEF HeldBefore
  <2>1. Before(d, seg[d].grp, seg[d].to)
    BY DEF OrderInv, HeldBefore
  <2>2. /\ seg[d].grp \in 0..MaxGroup /\ seg[d].to \in Int
        /\ next'[d] \in Int /\ next[d] <= next'[d]
    BY Numeric
  <2> QED
    BY <2>1, <2>2, BeforeKept DEF Before
<1>4. Holding' /\ InOrder'
  BY DEF OrderInv, Holding, InOrder
<1> QED
  BY <1>1, <1>2, <1>3, <1>4 DEF OrderInv

LEMMA WindowOrder ==
  ASSUME TypeOK, OrderInv, TypeOK', NEW c \in Client,
         CgiStep(c) \/ Poll(c) \/ CgiAbort(c) \/ UserStep(c)
  PROVE  OrderInv'
<1> USE DEF daemon, group, disk
<1>1. /\ UNCHANGED <<rpc, rd, wr, ct, cut>>
      /\ UNCHANGED files \/ \E T, K : Unlink(T, K)
  BY DEF CgiStep, UserStep, CgiStart, CgiStarted, CgiStat, CgiRead, CgiRemove, CgiStatEnd,
         CgiUpdate, Poll, CgiAbort, Start, Pause, Resume
<1>2. FilesStep /\ BufferOK'
  BY <1>1, UnlinkStep DEF OrderInv, BufferOK
<1>3. \A d \in Client \ {c} : /\ next'[d] = next[d] /\ seg'[d] = seg[d] /\ last'[d] = last[d]
                              /\ cpc'[d] = cpc[d] /\ cst'[d] = cst[d]
  <2> SUFFICES ASSUME NEW d \in Client, d # c
               PROVE  /\ next'[d] = next[d] /\ seg'[d] = seg[d] /\ last'[d] = last[d]
                      /\ cpc'[d] = cpc[d] /\ cst'[d] = cst[d]
    OBVIOUS
  <2>1. /\ next \in [Client -> Nat] /\ seg \in [Client -> Chunk] /\ cpc \in [Client -> CgiPc]
        /\ last \in [Client -> [grp: 0..MaxGroup, to: Unit]]
        /\ cst \in [Client -> {"off", "polling", "paused"}]
    BY DEF TypeOK
  <2>2. CASE CgiStart(c)
    BY <2>1, <2>2 DEF CgiStart
  <2>3. CASE CgiStarted(c)
    BY <2>1, <2>3 DEF CgiStarted
  <2>4. CASE CgiStat(c)
    BY <2>1, <2>4 DEF CgiStat
  <2>5. CASE CgiRead(c)
    BY <2>1, <2>5 DEF CgiRead
  <2>6. CASE CgiRemove(c)
    BY <2>1, <2>6 DEF CgiRemove
  <2>7. CASE CgiStatEnd(c)
    BY <2>1, <2>7 DEF CgiStatEnd
  <2>8. CASE CgiUpdate(c)
    BY <2>1, <2>8 DEF CgiUpdate
  <2>9. CASE Poll(c)
    BY <2>1, <2>9 DEF Poll
  <2>10. CASE CgiAbort(c)
    BY <2>1, <2>10 DEF CgiAbort
  <2>11. CASE Start(c)
    BY <2>1, <2>11 DEF Start
  <2>12. CASE Pause(c)
    BY <2>1, <2>12 DEF Pause
  <2>13. CASE Resume(c)
    BY <2>1, <2>13 DEF Resume
  <2> QED
    BY <2>2, <2>3, <2>4, <2>5, <2>6, <2>7, <2>8, <2>9, <2>10, <2>11, <2>12, <2>13 DEF CgiStep, UserStep
<1>4. /\ Before(c, last[c].grp, last[c].to) /\ Before(c, seg[c].grp, seg[c].to)
      /\ seg[c].grp # 0 => seg[c].from <= seg[c].to /\ cpc[c] \in {"remove", "update"}
      /\ cpc[c] \in {"stat", "read", "remove", "statEnd", "update", "end"} => cst[c] = "polling"
      /\ seg[c].grp # 0 /\ seg[c].grp = last[c].grp => last[c].to <= seg[c].from
  BY DEF OrderInv, ShownBefore, HeldBefore, Holding, InOrder
<1>5. /\ last[c].grp \in 0..MaxGroup /\ last[c].to \in Int
      /\ seg[c].grp \in 0..MaxGroup /\ seg[c].to \in Int /\ next[c] \in Int
  BY Numeric
<1>6. ASSUME UNCHANGED <<next, seg, last>>,
             seg[c].grp # 0 => cpc'[c] \in {"remove", "update"},
             cpc'[c] \in {"stat", "read", "remove", "statEnd", "update", "end"}
               => cst'[c] = "polling"
      PROVE  OrderInv'
  <2>1. next'[c] \in Int /\ next[c] <= next'[c]
    BY <1>5, <1>6
  <2>2. Before(c, last[c].grp, last[c].to)' /\ Before(c, seg[c].grp, seg[c].to)'
    BY <1>2, <1>4, <1>5, <1>6, <2>1, BeforeKept DEF Before
  <2> QED
    BY <1>2, <1>3, <1>4, <1>6, <2>2, OthersKept
<1>7. CASE CgiStart(c) \/ CgiStat(c) \/ CgiRemove(c) \/ CgiStatEnd(c)
  <2>1. UNCHANGED <<next, seg, last, cst>>
    BY <1>7 DEF CgiStart, CgiStat, CgiRemove, CgiStatEnd
  <2>2. \/ cpc[c] = "start" /\ cpc'[c] = "wait"
        \/ cpc[c] = "stat" /\ cpc'[c] \in {"read", "statEnd"}
        \/ cpc[c] = "remove" /\ cpc'[c] = "update"
        \/ cpc[c] = "statEnd" /\ cpc'[c] \in {"end", "update"}
    BY <1>7 DEF CgiStart, CgiStat, CgiRemove, CgiStatEnd, TypeOK
  <2> QED
    BY <1>4, <1>6, <2>1, <2>2
<1>8. CASE Poll(c) \/ Start(c)
  <2>1. /\ UNCHANGED <<next, seg, last>> /\ cpc[c] = "none"
        /\ \/ cpc'[c] = "start"
           \/ cst'[c] = "polling"
    BY <1>8 DEF Poll, Start, TypeOK
  <2>2. seg[c].grp = 0
    BY <1>4, <2>1
  <2> QED
    BY <1>6, <2>1, <2>2
<1>9. CASE Pause(c) \/ Resume(c)
  <2>1. UNCHANGED <<next, seg, last, cpc>> /\ cpc[c] = "none"
    BY <1>9 DEF Pause, Resume
  <2> QED
    BY <1>4, <1>6, <2>1
<1>10. CASE CgiStarted(c)
  <2>1. UNCHANGED seg /\ cpc[c] = "wait" /\ last'[c].grp = 0 /\ cpc'[c] = "none"
    BY <1>10 DEF CgiStarted, TypeOK
  <2>2. seg[c].grp = 0
    BY <1>4, <2>1
  <2> QED
    BY <1>2, <1>3, <2>1, <2>2, OthersKept DEF Before
<1>11. CASE CgiRead(c)
  <2>1. UNCHANGED <<files, last, cst, wr>> /\ cpc[c] = "read"
    BY <1>11 DEF CgiRead
  <2>2. CASE ~Present(TokenOf[c], next[c])
    <3>1. UNCHANGED <<next, seg>> /\ cpc'[c] = "update"
      BY <1>11, <2>2 DEF CgiRead, TypeOK
    <3> QED
      BY <1>4, <1>6, <2>1, <3>1
  <2>3. CASE Present(TokenOf[c], next[c])
    <3> DEFINE f == files[TokenOf[c]][next[c]]
    <3>1. seg'[c] = f /\ next'[c] = next[c] + 1 /\ cpc'[c] = "remove"
      BY <1>11, <2>3 DEF CgiRead, TypeOK
    <3>2. TokenOf[c] \in Token /\ next[c] \in ChunkNo /\ f.grp # 0
      BY <2>3, Numeric DEF Present
    <3>3. f.from <= f.to /\ f.to <= wr[f.grp]
      BY <3>2 DEF OrderInv, FilesOK
    <3>4. \A k \in ChunkNo : k >= next[c] + 1 /\ files[TokenOf[c]][k].grp = f.grp
                               => f.to <= files[TokenOf[c]][k].from
      BY <1>5, <3>2, Numeric DEF OrderInv, FilesSorted
    <3>5. Before(c, seg[c].grp, seg[c].to)'
      BY <2>1, <3>1, <3>3, <3>4 DEF Before
    <3>6. Before(c, last[c].grp, last[c].to)'
      <4>1. next'[c] \in Int /\ next[c] <= next'[c]
        BY <1>5, <3>1
      <4> QED
        BY <1>2, <1>4, <1>5, <2>1, <4>1, BeforeKept DEF Before
    <3>7. f.grp = last[c].grp => last[c].to <= f.from
      BY <1>4, <1>5, <3>2 DEF Before
    <3> HIDE DEF f
    <3> QED
      BY <1>2, <1>3, <1>4, <2>1, <3>1, <3>3, <3>5, <3>6, <3>7, OthersKept
  <2> QED
    BY <2>2, <2>3
<1>12. CASE CgiUpdate(c)
  <2>1. /\ UNCHANGED <<files, next, wr>> /\ seg'[c].grp = 0 /\ cpc'[c] = "none"
        /\ IF seg[c].grp = 0 THEN last'[c] = last[c]
           ELSE last'[c].grp = seg[c].grp /\ last'[c].to = seg[c].to
    BY <1>12 DEF CgiUpdate, TypeOK, NoChunk
  <2>2. Before(c, last[c].grp, last[c].to)'
    BY <1>4, <2>1 DEF Before
  <2> QED
    BY <1>2, <1>3, <2>1, <2>2, OthersKept DEF Before
<1>13. CASE CgiAbort(c)
  <2>1. UNCHANGED <<files, next, last, wr>> /\ seg'[c].grp = 0 /\ cpc'[c] = "none"
    BY <1>13 DEF CgiAbort, TypeOK, NoChunk
  <2>2. Before(c, last[c].grp, last[c].to)'
    BY <1>4, <2>1 DEF Before
  <2> QED
    BY <1>2, <1>3, <2>1, <2>2, OthersKept DEF Before
<1> QED
  BY <1>7, <1>8, <1>9, <1>10, <1>11, <1>12, <1>13 DEF CgiStep, UserStep

LEMMA OrderStep == TypeOK /\ EndInv /\ OrderInv /\ [Next]_vars => OrderInv'
<1> SUFFICES ASSUME TypeOK, EndInv, OrderInv, [Next]_vars
             PROVE  OrderInv'
  OBVIOUS
<1>1. TypeOK'
  BY NextType
<1>2. CASE Next
  BY <1>1, <1>2, DaemonOrder, GroupOrder, WindowOrder DEF Next, EndInv
<1>3. CASE UNCHANGED vars
  <2>1. UNCHANGED <<rpc, rd, wr, ct, cut, files, window>>
    BY <1>3 DEF vars, group, disk
  <2>2. FilesStep
    BY <2>1, UnlinkStep
  <2>3. BufferOK' /\ Holding' /\ UNCHANGED <<next, seg, last>>
    BY <2>1 DEF window, OrderInv, BufferOK, Holding
  <2> QED
    BY <2>2, <2>3, OrderKept
<1> QED
  BY <1>2, <1>3

LEMMA OrderInit == Init => OrderInv
<1> SUFFICES ASSUME Init PROVE OrderInv
  OBVIOUS
<1>1. BufferOK
  BY DEF Init, BufferOK
<1>2. \A t \in Token : \A k \in ChunkNo : files[t][k].grp = 0
  BY DEF Init, Nothing, NoChunk
<1>3. FilesOK /\ FilesSorted
  BY <1>2 DEF FilesOK, FilesSorted
<1>4. \A c \in Client : last[c].grp = 0 /\ seg[c].grp = 0 /\ cpc[c] = "none"
  BY DEF Init, NoChunk
<1>5. ShownBefore /\ HeldBefore /\ Holding /\ InOrder
  BY <1>4 DEF ShownBefore, HeldBefore, Before, Holding, InOrder
<1> QED
  BY <1>1, <1>3, <1>5 DEF OrderInv

LEMMA OrderInvariant == Spec => []OrderInv
BY OrderInit, OrderStep, EndInvariant, TypeInvariant, PTL DEF Spec

\* Pages are read in the order of the output and none twice: a request never holds a
\* page that its window has been shown, or that lies before one it has been shown.
THEOREM InOrderTheorem == Spec => []InOrder
<1>1. OrderInv => InOrder
  BY DEF OrderInv
<1> QED
  BY <1>1, OrderInvariant, PTL

----------------------------------------------------------------------------
(* The paging keeps the promise of PagedOutput *)

Running == [c \in Client |-> cst[c] # "off"]

LEMMA PromiseInit == Init => Promise!Init
<1>1. Init => /\ cst = [c \in Client |-> "off"]
              /\ last = [c \in Client |-> [grp |-> 0, to |-> 0]]
  BY DEF Init
<1> QED
  BY <1>1 DEF Promise!Init, Promise!Nowhere

\* Of window c only: it expects pages or not, and what it has been shown.
LEMMA RunsPromise ==
  ASSUME TypeOK, NEW c \in Client, CgiStarted(c)
  PROVE  Promise!Run(c)
<1>1. /\ cst' = [cst EXCEPT ![c] = "polling"]
      /\ last' = [last EXCEPT ![c] = [grp |-> 0, to |-> 0]]
  BY DEF CgiStarted
<1>2. DOMAIN cst = Client /\ DOMAIN last = Client
  BY DEF TypeOK
<1>3. [d \in Client |-> cst'[d] # "off"] = [[d \in Client |-> cst[d] # "off"] EXCEPT ![c] = TRUE]
  BY <1>1, <1>2
<1> QED
  BY <1>1, <1>2, <1>3 DEF Promise!Run, Promise!Nowhere

LEMMA LeavesPromise ==
  ASSUME TypeOK, NEW c \in Client, cst' = [cst EXCEPT ![c] = "off"], UNCHANGED last
  PROVE  Promise!Leave(c)
BY DEF TypeOK, Promise!Leave

LEMMA PagesPromise ==
  ASSUME TypeOK, OrderInv, NEW c \in Client, CgiUpdate(c), seg[c].grp # 0
  PROVE  Promise!Page(c)
<1>1. cpc[c] = "update" /\ cst[c] = "polling" /\ seg[c].from <= seg[c].to
  BY DEF CgiUpdate, OrderInv, Holding
<1>2. seg[c].grp = last[c].grp => last[c].to <= seg[c].from
  BY DEF OrderInv, InOrder
<1>3. seg[c].grp \in 1..MaxGroup /\ seg[c].from \in 0..MaxOut /\ seg[c].to \in 0..MaxOut
  BY Numbers DEF TypeOK, Chunk, Unit
<1>4. /\ last' = [last EXCEPT ![c] = [grp |-> seg[c].grp, to |-> seg[c].to]]
      /\ UNCHANGED cst
  BY <1>1 DEF CgiUpdate
<1> QED
  BY <1>1, <1>2, <1>3, <1>4 DEF Promise!Page

LEMMA PromiseStep ==
  ASSUME TypeOK, EndInv, OrderInv, [Next]_vars
  PROVE  Promise!Next \/ UNCHANGED <<Running, last>>
<1>1. CASE UNCHANGED window
  BY <1>1 DEF window, Running
<1>2. CASE DaemonStep \/ Shutdown \/ Boot \/ Tick
  BY <1>1, <1>2, DaemonGroups DEF EndInv
<1>3. ASSUME NEW g \in Group, WriterStep(g) \/ CommandStep(g) \/ ReaderStep(g)
      PROVE  UNCHANGED window
  BY <1>3 DEF WriterStep, CommandStep, WriterRegister, WriterFail, CommandOutput, CommandExit,
              ReaderStep, ReaderRead, ReaderCut, ReaderCutFails, ReaderFill, ReaderEof,
              ReaderEofFails, ReaderLast, ReaderEnd
<1>4. ASSUME NEW c \in Client, CgiStep(c) \/ Poll(c) \/ CgiAbort(c) \/ UserStep(c)
      PROVE  Promise!Next \/ UNCHANGED <<Running, last>>
  <2>1. CASE CgiStart(c) \/ CgiStat(c) \/ CgiRead(c) \/ CgiRemove(c) \/ CgiStatEnd(c) \/ Poll(c)
    BY <2>1 DEF CgiStart, CgiStat, CgiRead, CgiRemove, CgiStatEnd, Poll, Running
  <2>2. CASE CgiStarted(c)
    BY <2>2, RunsPromise DEF Promise!Next
  <2>3. CASE CgiUpdate(c) /\ seg[c].grp # 0
    BY <2>3, PagesPromise DEF Promise!Next
  <2>4. CASE CgiUpdate(c) /\ seg[c].grp = 0
    <3>1. UNCHANGED last /\ (UNCHANGED cst \/ cst' = [cst EXCEPT ![c] = "off"])
      BY <2>4 DEF CgiUpdate
    <3> QED
      BY <3>1, LeavesPromise DEF Promise!Next, Running
  <2>5. CASE CgiAbort(c) \/ Start(c)
    BY <2>5, LeavesPromise DEF CgiAbort, Start, Promise!Next
  <2>6. CASE Pause(c)
    <3>1. /\ UNCHANGED last /\ cst[c] = "polling"
          /\ cst' = [cst EXCEPT ![c] = "paused"] \/ cst' = [cst EXCEPT ![c] = "off"]
      BY <2>6 DEF Pause
    <3>2. CASE cst' = [cst EXCEPT ![c] = "paused"]
      BY <3>1, <3>2 DEF TypeOK, Running
    <3> QED
      BY <3>1, <3>2, LeavesPromise DEF Promise!Next
  <2>7. CASE Resume(c)
    BY <2>7 DEF Resume, TypeOK, Running
  <2> QED
    BY <1>4, <2>1, <2>2, <2>3, <2>4, <2>5, <2>6, <2>7 DEF CgiStep, UserStep
<1> QED
  BY <1>1, <1>2, <1>3, <1>4 DEF Next, vars

\* The paging of commands implements PagedOutput: a window is shown pages only while it
\* expects them, in order and never twice, through restarts, kills, culls and failures.
THEOREM PagesInOrderTheorem == Spec => PagesInOrder
<1>1. TypeOK /\ EndInv /\ OrderInv /\ [Next]_vars => [Promise!Next]_<<Running, last>>
  BY PromiseStep
<1> QED
  BY <1>1, PromiseInit, TypeInvariant, EndInvariant, OrderInvariant, PTL
     DEF Spec, PagesInOrder, Promise!Spec, Running
----------------------------------------------------------------------------
(* One living group a session: for fixed sleeps that are long enough, commands that   *)
(* start and sessions that are not culled                                             *)

Living(g) == wpc[g] \in {"start", "run"} \/ rpc[g] \notin {"none", "gone"}

\* All that lies where the pages of t are fetched is of group g (0: nothing does).
HasOnly(t, g) == endBy[t] \in {0, g} /\ \A k \in ChunkNo : files[t][k].grp \in {0, g}

Found == \A g \in Group : Living(g) =>
  tokOf[g] \in procColl /\ (wpc[g] = "start" \/ pidFile[tokOf[g]] = g)
Sole == \A g, h \in Group : Living(g) /\ Living(h) /\ tokOf[g] = tokOf[h] => g = h
Owned == /\ \A g \in Group : Living(g) => HasOnly(tokOf[g], g)
         /\ \A t \in Token : t \notin procColl => HasOnly(t, 0)
NoTime == culling = {} /\ \A t \in Token : age[t] = 0

SoleInv == Found /\ Sole /\ Owned /\ NoTime

\* The sleeps are long enough, no writer fails, and the timeout never passes.
Calm == Timely /\ "time" \notin Events /\ "writer" \notin Events

LEMMA SoleInit == Init => SoleInv
<1> SUFFICES ASSUME Init PROVE SoleInv
  OBVIOUS
<1>1. \A g \in Group : ~Living(g)
  BY DEF Init, Living
<1>2. \A t \in Token : HasOnly(t, 0)
  BY DEF Init, HasOnly, Nothing, NoChunk
<1>3. NoTime
  BY DEF Init, NoTime
<1> QED
  BY <1>1, <1>2, <1>3 DEF SoleInv, Found, Sole, Owned

\* A step that starts no group and writes only to the files of one that lives
LEMMA SoleKept ==
  ASSUME TypeOK, SoleInv, UNCHANGED <<procColl, culling, age, pidFile, tokOf>>,
         \A g \in Group : /\ wpc[g] = "start" => wpc'[g] = "start"
                          /\ Living(g)' => Living(g),
         NEW w \in Group,
         \A t \in Token :
           LET may == IF Living(w) /\ tokOf[w] = t THEN {0, w} ELSE {0}
           IN  /\ endBy'[t] \in may \union {endBy[t]}
               /\ \A k \in ChunkNo : files'[t][k].grp \in may \union {files[t][k].grp}
  PROVE  SoleInv'
<1> USE DEF SoleInv
<1>1. Found' /\ Sole'
  BY DEF Found, Sole
<1>2. NoTime'
  BY DEF NoTime
<1>3. ASSUME NEW g \in Group, Living(g)' PROVE HasOnly(tokOf[g], g)'
  <2>1. Living(g) /\ HasOnly(tokOf[g], g) /\ tokOf[g] \in Token
    BY <1>3 DEF Owned, TypeOK
  <2>2. Living(w) /\ tokOf[w] = tokOf[g] => w = g
    BY <2>1 DEF Sole
  <2> QED
    BY <2>1, <2>2 DEF HasOnly
<1>4. ASSUME NEW t \in Token, t \notin procColl PROVE HasOnly(t, 0)'
  <2>1. Living(w) => tokOf[w] # t
    BY <1>4 DEF Found
  <2> QED
    BY <1>4, <2>1 DEF Owned, HasOnly
<1> QED
  BY <1>1, <1>2, <1>3, <1>4 DEF Owned

LEMMA CleanLeaves ==
  ASSUME TypeOK, NEW T, Clean(T)
  PROVE  /\ \A t \in Token, g \in Group \union {0} : HasOnly(t, g) => HasOnly(t, g)'
         /\ \A t \in Token, g \in Group \union {0} : t \in T => HasOnly(t, g)'
<1>1. \A t \in Token : /\ endBy'[t] = IF t \in T THEN 0 ELSE endBy[t]
                       /\ \A k \in ChunkNo : files'[t][k] = IF t \in T THEN NoChunk ELSE files[t][k]
  BY DEF Clean, Unlink
<1> QED
  BY <1>1 DEF HasOnly, NoChunk

LEMMA SoleDaemon ==
  ASSUME Calm, TypeOK, SoleInv, DaemonStep \/ Shutdown \/ Boot \/ Tick
  PROVE  SoleInv'
<1> USE DEF SoleInv
<1>0. NoTime /\ \A t \in Token : ~Expired(t)
  BY Numbers DEF NoTime, Expired
<1>1. CASE HandleEmpty \/ HandleNothing \/ CullDone
  <2>1. UNCHANGED <<procColl, culling, age, pidFile, group, disk>>
    BY <1>1 DEF HandleEmpty, HandleNothing, CullDone
  <2> QED
    BY <2>1 DEF group, disk, Found, Sole, Owned, NoTime, Living, HasOnly
<1>2. CASE HandleUpdate
  <2>1. /\ UNCHANGED <<procColl, culling, pidFile, group, disk>>
        /\ age' = [age EXCEPT ![Head(listenq).token] = 0]
    BY <1>2 DEF HandleUpdate
  <2>2. NoTime'
    BY <1>0, <2>1 DEF NoTime, TypeOK
  <2> QED
    BY <2>1, <2>2 DEF group, disk, Found, Sole, Owned, Living, HasOnly
<1>3. CASE HandleRestart
  <2>1. PICK t \in Token : t = Head(listenq).token
    BY <1>3, AcceptType DEF HandleRestart, TypeOK
  <2>2. /\ t \in procColl /\ Fork(t, Victims({t})) /\ Clean({t}) /\ Settled
        /\ UNCHANGED <<procColl, culling, age, pidFile>>
    BY <1>3, <2>1 DEF HandleRestart, Accept
  <2>3. \A g \in Group : wpc[g] # "start"
    BY <2>2 DEF Settled, Calm
  <2>4. PICK new \in Group : new = forked + 1
    BY <2>1, <2>2, ForkType
  <2>5. /\ tokOf'[new] = t /\ wpc'[new] = "start"
        /\ \A g \in Group \ {new} : tokOf'[g] = tokOf[g]
    BY <2>2, <2>4 DEF Fork, TypeOK
  <2>6. ASSUME NEW g \in Group \ {new}, Living(g)' PROVE Living(g) /\ tokOf[g] # t
    <3>1. g # pidFile[t]
      BY <2>2, <2>4, <2>6 DEF Fork, Victims, Living
    <3>2. Living(g)
      BY <2>2, <2>4, <2>6, <3>1 DEF Fork, Victims, Living
    <3> QED
      BY <2>3, <3>1, <3>2 DEF Found
  <2>7. Found'
    BY <2>2, <2>3, <2>5, <2>6 DEF Found
  <2>8. Sole'
    BY <2>5, <2>6 DEF Sole
  <2>9. Owned'
    <3>1. ASSUME NEW g \in Group, Living(g)' PROVE HasOnly(tokOf[g], g)'
      <4>1. tokOf' \in [Group -> Token]
        BY <2>1, <2>2, ForkType
      <4>2. CASE g = new
        <5>1. HasOnly(t, new)'
          BY <2>1, <2>2, <2>4, CleanLeaves
        <5> QED
          BY <2>5, <4>2, <5>1
      <4>3. CASE g # new
        <5>1. Living(g) /\ tokOf'[g] = tokOf[g] /\ tokOf[g] \in Token
          BY <2>5, <2>6, <3>1, <4>3 DEF TypeOK
        <5>2. HasOnly(tokOf[g], g)
          BY <5>1 DEF Owned
        <5> QED
          BY <2>2, <5>1, <5>2, CleanLeaves DEF HasOnly
      <4> QED
        BY <4>2, <4>3
    <3>2. ASSUME NEW u \in Token, u \notin procColl PROVE HasOnly(u, 0)'
      BY <2>2, <3>2, CleanLeaves DEF Owned
    <3> QED
      BY <2>2, <3>1, <3>2 DEF Owned
  <2>10. NoTime'
    BY <1>0, <2>2 DEF NoTime
  <2> QED
    BY <2>7, <2>8, <2>9, <2>10
<1>4. CASE HandleNew
  <2>1. PICK t \in Token : t = Head(listenq).token
    BY <1>4, AcceptType DEF HandleNew, TypeOK
  <2>2. /\ t \notin procColl /\ Fork(t, {}) /\ procColl' = procColl \union {t}
        /\ age' = [age EXCEPT ![t] = 0] /\ UNCHANGED <<culling, pidFile, disk>>
    BY <1>4, <2>1 DEF HandleNew
  <2>3. PICK new \in Group : new = forked + 1
    BY <2>1, <2>2, ForkType
  <2>4. /\ tokOf'[new] = t /\ wpc'[new] = "start"
        /\ \A g \in Group \ {new} : tokOf'[g] = tokOf[g]
    BY <2>2, <2>3 DEF Fork, TypeOK
  <2>5. ASSUME NEW g \in Group \ {new}, Living(g)'
        PROVE  Living(g) /\ tokOf[g] # t /\ wpc'[g] = wpc[g]
    <3>1. wpc'[g] = wpc[g] /\ rpc'[g] = rpc[g]
      BY <2>2, <2>3 DEF Fork
    <3>2. Living(g)
      BY <2>5, <3>1 DEF Living
    <3> QED
      BY <2>2, <3>1, <3>2 DEF Found
  <2>6. Found'
    BY <2>2, <2>4, <2>5 DEF Found
  <2>7. Sole'
    BY <2>4, <2>5 DEF Sole
  <2>8. Owned'
    <3>1. \A u \in Token, g \in Group \union {0} : HasOnly(u, g) => HasOnly(u, g)'
      BY <2>2 DEF HasOnly, disk
    <3>2. HasOnly(t, 0) => HasOnly(t, new)'
      BY <2>2 DEF HasOnly, disk
    <3>3. ASSUME NEW g \in Group, Living(g)' PROVE HasOnly(tokOf[g], g)'
      <4>1. CASE g = new
        <5>1. HasOnly(t, new)'
          BY <2>1, <2>2, <3>2 DEF Owned
        <5> QED
          BY <2>4, <4>1, <5>1 DEF HasOnly
      <4>2. CASE g # new
        <5>1. Living(g) /\ tokOf'[g] = tokOf[g] /\ tokOf[g] \in Token
          BY <2>4, <2>5, <3>3, <4>2 DEF TypeOK
        <5>2. HasOnly(tokOf[g], g)
          BY <5>1 DEF Owned
        <5> QED
          BY <3>1, <5>1, <5>2 DEF HasOnly
      <4> QED
        BY <4>1, <4>2
    <3>4. ASSUME NEW u \in Token, u \notin procColl' PROVE HasOnly(u, 0)'
      BY <2>2, <3>1, <3>4 DEF Owned
    <3> QED
      BY <3>3, <3>4 DEF Owned
  <2>9. NoTime'
    BY <1>0, <2>2 DEF NoTime, TypeOK
  <2> QED
    BY <2>6, <2>7, <2>8, <2>9
<1>5. ASSUME NEW t \in Token, CullClean(t) \/ CullKill(t) PROVE FALSE
  BY <1>0, <1>5 DEF CullClean, CullKill, NoTime
<1>6. CASE Shutdown
  <2>1. /\ Kill(Victims(procColl)) /\ Clean(Token) /\ Settled /\ procColl' = {}
        /\ UNCHANGED <<culling, age>>
    BY <1>6 DEF Shutdown
  <2>2. ASSUME NEW g \in Group PROVE ~Living(g)'
    <3>1. Living(g) => g \in Victims(procColl)
      BY <2>1 DEF Found, Settled, Calm, Victims
    <3> QED
      BY <2>1, <3>1 DEF Kill, Living
  <2>3. \A u \in Token : HasOnly(u, 0)'
    BY <2>1, CleanLeaves
  <2>4. NoTime'
    BY <1>0, <2>1 DEF NoTime
  <2> QED
    BY <2>2, <2>3, <2>4 DEF Found, Sole, Owned
<1>7. CASE Boot
  <2>1. Clean(Token) /\ UNCHANGED <<procColl, culling, age, pidFile, tokOf, wpc, rpc>>
    BY <1>7 DEF Boot
  <2>2. \A u \in Token, g \in Group \union {0} : HasOnly(u, g)'
    BY <2>1, CleanLeaves
  <2>3. \A g \in Group : Living(g)' = Living(g)
    BY <2>1 DEF Living
  <2>4. Found' /\ Sole' /\ NoTime'
    BY <2>1, <2>3 DEF Found, Sole, NoTime
  <2>5. Owned'
    <3>1. \A g \in Group : HasOnly(tokOf[g], g)'
      BY <2>1, <2>2 DEF TypeOK, HasOnly
    <3> QED
      BY <2>2, <3>1 DEF Owned
  <2> QED
    BY <2>4, <2>5
<1>8. CASE Tick
  BY <1>8 DEF Tick, Calm
<1> QED
  BY <1>1, <1>2, <1>3, <1>4, <1>5, <1>6, <1>7, <1>8 DEF DaemonStep

LEMMA SoleGroup ==
  ASSUME Calm, TypeOK, SoleInv, NEW g \in Group, WriterStep(g) \/ CommandStep(g) \/ ReaderStep(g)
  PROVE  SoleInv'
<1>1. CASE WriterRegister(g)
  <2>1. /\ wpc[g] = "start" /\ pidFile' = [pidFile EXCEPT ![tokOf[g]] = g]
        /\ wpc' = [wpc EXCEPT ![g] = "run"]
        /\ UNCHANGED <<procColl, culling, age, tokOf, rpc, disk>>
    BY <1>1 DEF WriterRegister
  <2>2. \A h \in Group : /\ Living(h)' = Living(h)
                         /\ h # g => wpc'[h] = wpc[h]
    BY <2>1 DEF Living, TypeOK
  <2>3. Living(g) /\ tokOf[g] \in Token
    BY <2>1 DEF Living, TypeOK
  <2>4. ASSUME NEW h \in Group, Living(h)'
        PROVE  tokOf'[h] \in procColl' /\ (wpc'[h] = "start" \/ pidFile'[tokOf'[h]] = h)
    <3>1. CASE h = g
      BY <2>1, <2>3, <3>1 DEF SoleInv, Found, TypeOK
    <3>2. CASE h # g
      <4>1. Living(h) /\ tokOf[h] # tokOf[g] /\ tokOf[h] \in Token
        BY <2>2, <2>3, <2>4, <3>2 DEF SoleInv, Sole, TypeOK
      <4>2. pidFile'[tokOf[h]] = pidFile[tokOf[h]]
        BY <2>1, <4>1 DEF TypeOK
      <4> QED
        BY <2>1, <2>2, <3>2, <4>1, <4>2 DEF SoleInv, Found
    <3> QED
      BY <3>1, <3>2
  <2>5. Sole' /\ Owned' /\ NoTime'
    BY <2>1, <2>2 DEF SoleInv, Sole, Owned, NoTime, HasOnly, disk
  <2> QED
    BY <2>4, <2>5 DEF SoleInv, Found
<1>2. CASE WriterFail(g)
  BY <1>2 DEF WriterFail, Calm
<1>3. CASE CommandStep(g) \/ ReaderStep(g)
  <2>1. UNCHANGED <<procColl, culling, age, pidFile, tokOf>>
    BY <1>3 DEF CommandStep, ReaderStep, CommandOutput, CommandExit, ReaderRead, ReaderCut,
         ReaderCutFails, ReaderFill, ReaderEof, ReaderEofFails, ReaderLast, ReaderEnd, daemon
  <2>2. \A h \in Group : /\ wpc[h] = "start" => wpc'[h] = "start"
                         /\ Living(h)' => Living(h)
    BY <1>3 DEF CommandStep, ReaderStep, CommandOutput, CommandExit, ReaderRead, ReaderCut,
         ReaderCutFails, ReaderFill, ReaderEof, ReaderEofFails, ReaderLast, ReaderEnd, AtEof,
         Living, TypeOK
  <2>3. \A t \in Token :
           LET may == IF Living(g) /\ tokOf[g] = t THEN {0, g} ELSE {0}
           IN  /\ endBy'[t] \in may \union {endBy[t]}
               /\ \A k \in ChunkNo : files'[t][k].grp \in may \union {files[t][k].grp}
    <3>1. CASE UNCHANGED disk
      BY <3>1 DEF disk
    <3>2. CASE ReaderCut(g) \/ ReaderEof(g)
      <4>1. Living(g) /\ endBy' = endBy /\ Open(g)
        BY <3>2 DEF ReaderCut, ReaderEof, AtEof, Living
      <4>2. \A t \in Token : \A k \in ChunkNo :
              files'[t][k].grp \in (IF tokOf[g] = t THEN {g} ELSE {}) \union {files[t][k].grp}
        BY <4>1 DEF Open, TypeOK
      <4> QED
        BY <4>1, <4>2
    <3>3. CASE ReaderFill(g) \/ ReaderLast(g)
      <4>1. Living(g) /\ endBy' = endBy /\ \E u : Fill(g, u)
        BY <3>3 DEF ReaderFill, ReaderLast, Living
      <4>2. \A t \in Token : \A k \in ChunkNo :
              files'[t][k].grp \in (IF tokOf[g] = t THEN {g} ELSE {}) \union {files[t][k].grp}
        BY <4>1 DEF Fill, TypeOK
      <4> QED
        BY <4>1, <4>2
    <3>4. CASE ReaderEnd(g)
      BY <3>4 DEF ReaderEnd, Living, TypeOK
    <3> QED
      BY <1>3, <3>1, <3>2, <3>3, <3>4 DEF CommandStep, ReaderStep, CommandOutput, CommandExit,
         ReaderRead, ReaderCutFails, ReaderEofFails
  <2> QED
    BY <2>1, <2>2, <2>3, SoleKept
<1> QED
  BY <1>1, <1>2, <1>3 DEF WriterStep

LEMMA SoleWindow ==
  ASSUME TypeOK, SoleInv, NEW c \in Client, CgiStep(c) \/ Poll(c) \/ CgiAbort(c) \/ UserStep(c)
  PROVE  SoleInv'
<1>1. UNCHANGED <<procColl, culling, age, pidFile, tokOf, wpc, rpc, endBy>>
  BY DEF CgiStep, UserStep, CgiStart, CgiStarted, CgiStat, CgiRead, CgiRemove, CgiStatEnd,
         CgiUpdate, Poll, CgiAbort, Start, Pause, Resume, daemon, group, disk
<1>2. \A t \in Token : \A k \in ChunkNo : files'[t][k].grp \in {0, files[t][k].grp}
  <2>1. CASE CgiRemove(c)
    BY <2>1 DEF CgiRemove, Unlink, NoChunk
  <2>2. CASE files' = files
    BY <2>2
  <2> QED
    BY <2>1, <2>2 DEF CgiStep, UserStep, CgiStart, CgiStarted, CgiStat, CgiRead, CgiStatEnd,
         CgiUpdate, Poll, CgiAbort, Start, Pause, Resume, disk
<1>3. \A g \in Group : Living(g)' = Living(g)
  BY <1>1 DEF Living
<1>4. Found' /\ Sole' /\ NoTime'
  BY <1>1, <1>3 DEF SoleInv, Found, Sole, NoTime
<1>5. Owned'
  <2>1. \A t \in Token, g \in Group \union {0} : HasOnly(t, g) => HasOnly(t, g)'
    BY <1>1, <1>2 DEF HasOnly
  <2>2. ASSUME NEW g \in Group, Living(g)' PROVE HasOnly(tokOf[g], g)'
    <3>1. Living(g) /\ tokOf'[g] = tokOf[g] /\ tokOf[g] \in Token /\ HasOnly(tokOf[g], g)
      BY <1>1, <1>3, <2>2 DEF TypeOK, SoleInv, Owned
    <3> QED
      BY <2>1, <3>1 DEF HasOnly
  <2> QED
    BY <1>1, <2>1, <2>2 DEF SoleInv, Owned
<1> QED
  BY <1>4, <1>5 DEF SoleInv

LEMMA SoleInvariant ==
  ASSUME Calm
  PROVE  Spec => []SoleInv
<1>1. ASSUME TypeOK, SoleInv, [Next]_vars PROVE SoleInv'
  <2>1. CASE UNCHANGED vars
    BY <1>1, <2>1 DEF vars, daemon, group, disk, SoleInv, Found, Sole, Owned, NoTime, Living, HasOnly
  <2> QED
    BY <1>1, <2>1, SoleDaemon, SoleGroup, SoleWindow DEF Next
<1>2. TypeOK /\ SoleInv /\ [Next]_vars => SoleInv'
  BY <1>1
<1> QED
  BY <1>2, SoleInit, TypeInvariant, PTL DEF Spec

\* Where the fixed sleeps are long enough, writers do not fail and no timeout passes, the
\* daemon can find and kill every running command, through restarts of commands and of the
\* daemon itself, for any windows sharing sessions (kill_process, start_new).
THEOREM ReapableTheorem ==
  ASSUME Calm
  PROVE  Spec => []Reapable
<1>1. SoleInv => Reapable
  BY DEF SoleInv, Found, Living, Reapable
<1> QED
  BY <1>1, SoleInvariant, PTL

\* Under the same conditions a command never meets pages or the end marker of another: the
\* old group is dead, and its files gone, before the new one can file anything.
THEOREM FreshPagesTheorem ==
  ASSUME Calm
  PROVE  Spec => []FreshPages
<1>1. SoleInv => FreshPages
  BY DEF SoleInv, Owned, Living, HasOnly, FreshPages
<1> QED
  BY <1>1, SoleInvariant, PTL

----------------------------------------------------------------------------
(* Culling *)

\* An entry's time tells how long ago its session was heard of, until a second command of
\* the session finds the entry there.
TimeTells == \A t \in procColl : age[t] = contact[t]

LEMMA TimeStep ==
  ASSUME TypeOK, TimeTells, [Next]_vars, ~HandleRestart \/ UNCHANGED vars
  PROVE  TimeTells'
<1>1. ASSUME UNCHANGED <<age, contact>>, procColl' \subseteq procColl PROVE TimeTells'
  BY <1>1 DEF TimeTells
<1>2. CASE HandleUpdate \/ HandleNew
  <2>1. listenq' \in Seq(Conn) /\ Head(listenq).token \in Token
    BY <1>2, AcceptType DEF HandleUpdate, HandleNew, TypeOK
  <2>2. /\ age' = [age EXCEPT ![Head(listenq).token] = 0]
        /\ contact' = [contact EXCEPT ![Head(listenq).token] = 0]
        /\ procColl' \subseteq procColl \union {Head(listenq).token}
    BY <1>2 DEF HandleUpdate, HandleNew
  <2> QED
    BY <2>1, <2>2 DEF TimeTells, TypeOK
<1>3. CASE Tick
  BY <1>3 DEF Tick, Older, TimeTells, TypeOK
<1>4. CASE \/ HandleEmpty \/ HandleNothing \/ CullDone \/ Shutdown \/ Boot \/ UNCHANGED vars
           \/ \E t \in Token : CullClean(t) \/ CullKill(t)
  BY <1>1, <1>4 DEF HandleEmpty, HandleNothing, CullDone, Shutdown, Boot, CullClean, CullKill,
                    vars, daemon
<1>5. CASE \E g \in Group : WriterStep(g) \/ CommandStep(g) \/ ReaderStep(g)
  <2>1. UNCHANGED <<age, contact, procColl>>
    BY <1>5 DEF WriterStep, CommandStep, ReaderStep, WriterRegister, WriterFail, CommandOutput,
                CommandExit, ReaderRead, ReaderCut, ReaderCutFails, ReaderFill, ReaderEof,
                ReaderEofFails, ReaderLast, ReaderEnd, daemon
  <2> QED
    BY <1>1, <2>1
<1>6. CASE \E c \in Client : CgiStep(c) \/ Poll(c) \/ CgiAbort(c) \/ UserStep(c)
  <2>1. UNCHANGED <<age, contact, procColl>>
    BY <1>6 DEF CgiStep, UserStep, Poll, CgiAbort, CgiStart, CgiStarted, CgiStat, CgiRead,
                CgiRemove, CgiStatEnd, CgiUpdate, Start, Pause, Resume, daemon
  <2> QED
    BY <1>1, <2>1
<1>7. HandleRestart => UNCHANGED vars
  OBVIOUS
<1> QED
  BY <1>2, <1>3, <1>4, <1>5, <1>6, <1>7 DEF Next, DaemonStep

\* As long as no command is started where the daemon has an entry for its session already,
\* an entry is culled only when nothing was heard of its session for the whole timeout.
\* With such a start it may be culled early: insert() keeps the old entry's time.
THEOREM OrphansOnlyTheorem == Spec /\ [][~HandleRestart]_vars => OrphansOnly
<1>1. Init => TimeTells
  BY DEF Init, TimeTells
<1>2. ASSUME TypeOK, TimeTells, [Next]_vars
      PROVE  [\A t \in culling' \ culling : contact[t] > KillTimeout]_vars
  <2>1. ASSUME NEW t \in culling', t \notin culling, Next PROVE contact[t] > KillTimeout
    <3>1. CASE \E u \in Token : CullClean(u)
      <4>1. t \in procColl /\ age[t] > KillTimeout
        BY <2>1, <3>1 DEF CullClean, Expired
      <4> QED
        BY <1>2, <4>1 DEF TimeTells
    <3>2. CASE \/ HandleEmpty \/ HandleUpdate \/ HandleRestart \/ HandleNew \/ HandleNothing
               \/ CullDone \/ Shutdown \/ Boot \/ Tick \/ \E u \in Token : CullKill(u)
      <4>1. culling' \subseteq culling
        BY <3>2 DEF HandleEmpty, HandleUpdate, HandleRestart, HandleNew, HandleNothing, CullDone,
                    Shutdown, Boot, Tick, CullKill
      <4> QED
        BY <2>1, <4>1
    <3>3. CASE \E g \in Group : WriterStep(g) \/ CommandStep(g) \/ ReaderStep(g)
      <4>1. culling' = culling
        BY <3>3 DEF WriterStep, CommandStep, ReaderStep, WriterRegister, WriterFail, CommandOutput,
                    CommandExit, ReaderRead, ReaderCut, ReaderCutFails, ReaderFill, ReaderEof,
                    ReaderEofFails, ReaderLast, ReaderEnd, daemon
      <4> QED
        BY <2>1, <4>1
    <3>4. CASE \E c \in Client : CgiStep(c) \/ Poll(c) \/ CgiAbort(c) \/ UserStep(c)
      <4>1. culling' = culling
        BY <3>4 DEF CgiStep, UserStep, Poll, CgiAbort, CgiStart, CgiStarted, CgiStat, CgiRead,
                    CgiRemove, CgiStatEnd, CgiUpdate, Start, Pause, Resume, daemon
      <4> QED
        BY <2>1, <4>1
    <3> QED
      BY <2>1, <3>1, <3>2, <3>3, <3>4 DEF Next, DaemonStep
  <2> QED
    BY <1>2, <2>1
<1>3. TypeOK /\ TimeTells /\ [Next]_vars /\ [~HandleRestart]_vars => TimeTells'
  BY TimeStep
<1> QED
  BY <1>1, <1>2, <1>3, InitType, NextType, PTL DEF Spec, OrphansOnly
============================================================================
