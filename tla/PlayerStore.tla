----------------------------- MODULE PlayerStore -----------------------------
(***************************************************************************)
(* What a player may expect of the server's persistence: a register with a *)
(* latest and a stored version.  Whatever is stored is the latest version, *)
(* and what is lost falls back to the stored one.  A player whose row the  *)
(* server holds twice (shared) is promised nothing until the process ends. *)
(***************************************************************************)
EXTENDS Naturals

CONSTANT Player

VARIABLES latest, stored, shared

storeVars == <<latest, stored, shared>>

Init ==
  /\ latest = [p \in Player |-> 0]
  /\ stored = [p \in Player |-> 0]
  /\ shared = {}

\* The first version of a player who has none.
Create(p) ==
  /\ p \notin shared
  /\ stored[p] = 0
  /\ latest' = [latest EXCEPT ![p] = 1]
  /\ stored' = [stored EXCEPT ![p] = 1]
  /\ UNCHANGED shared

Progress(p) ==
  /\ p \notin shared
  /\ latest' = [latest EXCEPT ![p] = @ + 1]
  /\ UNCHANGED <<stored, shared>>

\* The latest version of the players of S is stored, that of L is lost.
Settle(S, L) ==
  /\ S \cap L = {}
  /\ stored' = [p \in Player |-> IF p \in S THEN latest[p] ELSE stored[p]]
  /\ latest' = [p \in Player |-> IF p \in L THEN stored[p] ELSE latest[p]]
  /\ UNCHANGED shared

\* The promise to p ends; the values kept for him mean nothing from here on.
Share(p) ==
  /\ shared' = shared \cup {p}
  /\ latest' = [latest EXCEPT ![p] = 0]
  /\ stored' = [stored EXCEPT ![p] = 0]

\* The process ends, after it has stored S: only what is stored remains.
End(S) ==
  /\ shared' = {}
  /\ \A p \in Player \ shared : stored'[p] = IF p \in S THEN latest[p] ELSE stored[p]
  /\ DOMAIN stored' = Player
  /\ latest' = stored'

Next ==
  \/ \E p \in Player : Create(p) \/ Progress(p) \/ Share(p)
  \/ \E S, L \in SUBSET Player : Settle(S, L)
  \/ \E S \in SUBSET Player : End(S)

Spec == Init /\ [][Next]_storeVars
=============================================================================
