--------------------------- MODULE BlockLifecycle ---------------------------
(***************************************************************************)
(* What the tracker promises about identity, whatever the state it keeps   *)
(* for a block: an id names at most one object, an object appears under    *)
(* one id, once, and when it is replaced or withdrawn it is gone for good. *)
(* BlockTracker implements this specification.                             *)
(***************************************************************************)
EXTENDS Naturals

CONSTANTS Ids, Objects, Nobody

VARIABLES holder,  \* id -> the object it names, or Nobody
          gone     \* objects that were named once and no longer are

vars == <<holder, gone>>

Held == {holder[b] : b \in Ids} \ {Nobody}

Init == holder = [b \in Ids |-> Nobody] /\ gone = {}

\* A new object appears under id b, retiring the one b named, if any.
Appear(b, o) ==
  /\ o \notin Held \union gone
  /\ holder' = [holder EXCEPT ![b] = o]
  /\ gone' = gone \union ({holder[b]} \ {Nobody})

\* The ids in B stop naming anything.
Withdraw(B) ==
  /\ holder' = [b \in Ids |-> IF b \in B THEN Nobody ELSE holder[b]]
  /\ gone' = gone \union ({holder[b] : b \in B} \ {Nobody})

Next == \/ \E b \in Ids, o \in Objects : Appear(b, o)
        \/ \E B \in SUBSET Ids : Withdraw(B)

Spec == Init /\ [][Next]_vars
=============================================================================
