----------------------------- MODULE Membership -----------------------------
(***************************************************************************)
(* What the connection table of the game server promises, without saying   *)
(* how: a bounded set of members.  A connection becomes a member at most   *)
(* once in its life and, once out, stays out.  A join normally adds a      *)
(* member; it may take the place of another one, because the table is      *)
(* keyed by a random number which two connections can share.               *)
(***************************************************************************)
EXTENDS Naturals, FiniteSets

CONSTANTS Conn,   \* the connections that ever reach the server
          Limit   \* how many may be members at the same time

VARIABLES members, \* the connections in the table
          gone     \* the connections that were in the table and left it

memberVars == <<members, gone>>

Init == members = {} /\ gone = {}

\* c enters the table, next to the members or in the place of `displaced`.
Join(c, displaced) ==
  /\ c \notin members \cup gone
  /\ Cardinality(members) < Limit
  /\ displaced \in SUBSET members
  /\ Cardinality(displaced) <= 1
  /\ members' = (members \ displaced) \cup {c}
  /\ gone' = gone \cup displaced

\* Some members leave together.
Leave(S) ==
  /\ members' = members \ S
  /\ gone' = gone \cup S

Next ==
  \/ \E c \in Conn \ (members \cup gone), displaced \in SUBSET members : Join(c, displaced)
  \/ \E S \in (SUBSET members) \ {{}} : Leave(S)

Spec == Init /\ [][Next]_memberVars
=============================================================================
