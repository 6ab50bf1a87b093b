----------------------------- MODULE ObjectGraph ----------------------------
(***************************************************************************)
(* What the memory manager promises the running program: a graph of        *)
(* objects that keep their identity and their fields.  Collections are     *)
(* invisible except that what nothing else refers to may be forgotten.     *)
(***************************************************************************)
CONSTANTS Ids,    \* identities of objects
          Slots,  \* the slots of an object, and those of the roots
          Root,   \* the roots, as one object that is always there
          Null    \* the null reference

VARIABLES objects,  \* identities of the objects there are
          edges     \* <<x, s, y>>: slot s of x refers to y

vars == <<objects, edges>>

(* The edges after slot s of x has been set to y. *)
Assigned(x, s, y) ==
  {e \in edges : e[1] # x \/ e[2] # s}
    \union (IF y = Null THEN {} ELSE {<<x, s, y>>})

Init ==
  /\ objects = {}
  /\ edges = {}

New(i, s) ==
  /\ i \notin objects
  /\ objects' = objects \union {i}
  /\ edges' = Assigned(Root, s, i)

(* The object in root s gets a reference to y in its slot f. *)
Store(s, f, y) ==
  /\ UNCHANGED objects
  /\ y = Null \/ \E t \in Slots : <<Root, t, y>> \in edges
  /\ \E x \in objects : /\ <<Root, s, x>> \in edges
                        /\ edges' = Assigned(x, f, y)

Load(s, f, t) ==
  /\ UNCHANGED objects
  /\ \E x \in objects :
        /\ <<Root, s, x>> \in edges
        /\ \/ \E y \in objects : /\ <<x, f, y>> \in edges
                                 /\ edges' = Assigned(Root, t, y)
           \/ /\ \A y \in objects : <<x, f, y>> \notin edges
              /\ edges' = Assigned(Root, t, Null)

Drop(s) ==
  /\ UNCHANGED objects
  /\ edges' = Assigned(Root, s, Null)

(* Objects to which nothing that stays refers may go. *)
Forget(gone) ==
  /\ gone \subseteq objects
  /\ \A e \in edges : e[3] \in gone => e[1] \in gone
  /\ objects' = objects \ gone
  /\ edges' = {e \in edges : e[1] \notin gone}

Next ==
  \/ \E gone \in SUBSET objects : Forget(gone)
  \/ \E s \in Slots : Drop(s)
  \/ \E i \in Ids, s \in Slots : New(i, s)
  \/ \E s, f \in Slots, y \in objects \union {Null} : Store(s, f, y)
  \/ \E s, f, t \in Slots : Load(s, f, t)

Spec == Init /\ [][Next]_vars
=============================================================================
