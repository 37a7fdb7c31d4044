---------------------------- MODULE PagedOutput ----------------------------
(* What the paging of operational commands promises a browser window: once  *)
(* it runs a command it is shown pages, each of them a run of output units  *)
(* of one process group, until it is told the end or leaves. Of one group   *)
(* the pages come in order and never twice. A page may get lost, and a      *)
(* later command of the same session may take over the pages.               *)
EXTENDS Naturals

CONSTANTS Client, MaxGroup, MaxOut

VARIABLES running,  \* the window expects pages
          shown     \* the group and the last unit of the newest page shown

Nowhere == [grp |-> 0, to |-> 0]

Init == /\ running = [c \in Client |-> FALSE]
        /\ shown = [c \in Client |-> Nowhere]

\* A command is accepted for the window: its pages start over.
Run(c) ==
  /\ running' = [running EXCEPT ![c] = TRUE]
  /\ shown' = [shown EXCEPT ![c] = Nowhere]

\* The page holding units from+1..to of group g.
Page(c) ==
  /\ running[c]
  /\ \E g \in 1..MaxGroup, from, to \in 0..MaxOut :
       /\ from <= to
       /\ g = shown[c].grp => shown[c].to <= from
       /\ shown' = [shown EXCEPT ![c] = [grp |-> g, to |-> to]]
  /\ UNCHANGED running

\* The end of the output, an error, another command or another panel.
Leave(c) ==
  /\ running' = [running EXCEPT ![c] = FALSE]
  /\ UNCHANGED shown

Next == \E c \in Client : Run(c) \/ Page(c) \/ Leave(c)

Spec == Init /\ [][Next]_<<running, shown>>
============================================================================
