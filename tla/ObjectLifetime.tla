--------------------------- MODULE ObjectLifetime ---------------------------
(***************************************************************************)
(* What RefBase promises its clients, without counters: an object stays    *)
(* alive while it is strongly held; a STRONG object is destroyed once its  *)
(* last strong holder is gone and cannot be held strongly again; a WEAK    *)
(* object lives, and can be revived, until its last holder of any kind is  *)
(* gone. Implemented by RefBase.                                           *)
(***************************************************************************)
CONSTANT Holders

VARIABLES
  lifetime,  \* "STRONG" or "WEAK", fixed
  creator,   \* the creator has not yet let go of the new object
  alive,     \* the object exists
  ever,      \* it has been held strongly
  strong,    \* who holds it strongly
  refs       \* who refers to it at all (strong holders included)

vars == <<lifetime, creator, alive, ever, strong, refs>>

Init ==
  /\ lifetime \in {"STRONG", "WEAK"}
  /\ creator = TRUE /\ alive = TRUE /\ ever = FALSE
  /\ strong = {} /\ refs = {}

LetGo ==
  /\ creator
  /\ creator' = FALSE
  /\ UNCHANGED <<lifetime, alive, ever, strong, refs>>

Refer(p) ==
  /\ p \notin refs
  /\ creator \/ refs # {}
  /\ refs' = refs \cup {p}
  /\ UNCHANGED <<lifetime, creator, alive, ever, strong>>

Acquire(p) ==
  /\ p \in refs \ strong
  /\ alive
  /\ lifetime = "STRONG" => ~ever \/ strong # {}
  /\ strong' = strong \cup {p}
  /\ ever' = TRUE
  /\ UNCHANGED <<lifetime, creator, alive, refs>>

Release(p) ==
  /\ p \in strong
  /\ strong' = strong \ {p}
  /\ UNCHANGED <<lifetime, creator, alive, ever, refs>>

Forget(p) ==
  /\ p \in refs \ strong
  /\ refs' = refs \ {p}
  /\ UNCHANGED <<lifetime, creator, alive, ever, strong>>

Unneeded == /\ ~creator
            /\ IF lifetime = "STRONG" THEN ever /\ strong = {} ELSE refs = {}

Destroy ==
  /\ alive /\ Unneeded
  /\ alive' = FALSE
  /\ UNCHANGED <<lifetime, creator, ever, strong, refs>>

DestroyUnused ==     \* the creator deletes what it never shared
  /\ creator /\ refs = {} /\ ~ever
  /\ creator' = FALSE
  /\ alive' = FALSE
  /\ UNCHANGED <<lifetime, ever, strong, refs>>

Next ==
  \/ LetGo \/ Destroy \/ DestroyUnused
  \/ \E p \in Holders : Refer(p) \/ Acquire(p) \/ Release(p) \/ Forget(p)

Spec == Init /\ [][Next]_vars

(* In addition, what nobody needs any more is destroyed.                   *)
LiveSpec == Spec /\ WF_vars(Destroy)
=============================================================================
