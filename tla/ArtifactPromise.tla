-------------------------- MODULE ArtifactPromise --------------------------
(***************************************************************************)
(* What a Repo node promises about one artifact operation, whatever        *)
(* crashes, retries and collections happen on the way: it is certified (a  *)
(* durable receipt whose bytes can be read) or dropped, never both and     *)
(* never undone; only a certified artifact becomes visible, at most one    *)
(* per logical name, and stays so; and a certified one does become visible *)
(* unless its name is taken.                                               *)
(***************************************************************************)
CONSTANTS Op, Name

VARIABLES certified, visible, dropped

vars == <<certified, visible, dropped>>

Init == certified = {} /\ visible = {} /\ dropped = {}

Certify(o) ==
  /\ o \notin certified \cup dropped
  /\ certified' = certified \cup {o} /\ UNCHANGED <<visible, dropped>>

Show(o) ==
  /\ o \in certified /\ \A p \in visible : Name[p] # Name[o]
  /\ visible' = visible \cup {o} /\ UNCHANGED <<certified, dropped>>

Drop(o) ==
  /\ o \notin certified \cup dropped
  /\ dropped' = dropped \cup {o} /\ UNCHANGED <<certified, visible>>

Next == \E o \in Op : Certify(o) \/ Show(o) \/ Drop(o)

Safety == Init /\ [][Next]_vars

Spec == Safety /\ \A o \in Op : WF_vars(Show(o))
=============================================================================
