-------------------------------- MODULE Stock --------------------------------
(* What the table of materials promises, without locks and copies: whoever    *)
(* gets a transmutation draws its material in one step, from what is there at *)
(* that moment. Inventory implements this specification.                      *)
EXTENDS Naturals

CONSTANTS Materials, Requests

VARIABLES
  material,      \* the rows: soft-deletion state and quantity
  grants         \* the transmutations: who drew how much from what

vars == <<material, grants>>

Row == [life : {"absent", "live", "deleted"}, quantity : Nat]

Init ==
  /\ material \in [Materials -> Row]
  /\ grants = {}

\* A material is created or edited.
Put(m) ==
  /\ material' = [material EXCEPT ![m] = material'[m]]
  /\ material'[m] \in Row /\ material'[m].life = "live"
  /\ UNCHANGED grants

Remove(m) ==
  /\ material' = [material EXCEPT ![m].life = "deleted"]
  /\ UNCHANGED grants

\* Request r, which has drawn nothing yet, draws some of what there is.
Draw(r, m) ==
  /\ material[m].life = "live"
  /\ \A g \in grants : g.by # r
  /\ \E q \in 1 .. material[m].quantity :
       /\ material' = [material EXCEPT ![m].quantity = @ - q]
       /\ grants' = grants \cup {[by |-> r, from |-> m, amount |-> q]}

Next ==
  \E m \in Materials :
    \/ Put(m) \/ Remove(m)
    \/ \E r \in Requests : Draw(r, m)

Spec == Init /\ [][Next]_vars
=============================================================================
