------------------------------ MODULE UndoStack ------------------------------
(***************************************************************************)
(* What the Undo/Redo timeline promises: a line of project states with a   *)
(* cursor.  A place on the line stands for one state as long as it is      *)
(* there; the places before the cursor are what Undo goes back to, nearest *)
(* first, the ones after it what Redo goes forward to.  Memory pressure    *)
(* may forget the far ends of the line at any step, never the place next   *)
(* to the cursor.                                                          *)
(***************************************************************************)
EXTENDS Integers

CONSTANT States

VARIABLES
  line,   \* from the places to the states
  cursor  \* the place of the present state

stack == <<line, cursor>>

Init == cursor = 0 /\ \E s \in States : line = [i \in {0} |-> s]

Before(D, c) == {i \in D : i < c}
After(D, c) == {i \in D : c < i}

\* The parts of D that are left when its ends are forgotten.
Remains(D, c) ==
  {K \in SUBSET D :
     /\ c \in K
     /\ \A i \in K, j \in D : (i <= j /\ j <= c) \/ (c <= j /\ j <= i) => j \in K
     /\ Before(D, c) # {} => Before(K, c) # {}
     /\ After(D, c) # {} => After(K, c) # {}}

\* The line becomes l, less what is forgotten, with the cursor at c.
Becomes(l, c) ==
  /\ cursor' = c
  /\ \E K \in Remains(DOMAIN l, c) : line' = [i \in K |-> l[i]]

\* A new state is reached, which may differ in its context only: there is
\* nothing left to redo.
Edit ==
  /\ \A i \in DOMAIN line : i < cursor'
  /\ \E s \in States :
       Becomes([i \in Before(DOMAIN line, cursor) \cup {cursor, cursor'} |->
                  IF i = cursor' THEN s ELSE line[i]], cursor')

\* Undo, Redo and jumps move the cursor along the line.
Move == \E i \in DOMAIN line : Becomes(line, i)

\* Steps of a finished editing session merge into one, and what could be redone
\* stays or goes as a whole.
Squash ==
  \E D \in SUBSET Before(DOMAIN line, cursor), F \in {{}, After(DOMAIN line, cursor)} :
    /\ Before(DOMAIN line, cursor) # {} => D # {}
    /\ Becomes([i \in D \cup {cursor} \cup F |-> line[i]], cursor)

\* Another project is opened.
Replace == cursor' = 0 /\ \E s \in States : line' = [i \in {0} |-> s]

Next == Edit \/ Move \/ Squash \/ Replace

Spec == Init /\ [][Next]_stack
=============================================================================
