-------------------------------- MODULE Mutex --------------------------------
(***************************************************************************)
(* What an owner lock promises its callers: it is held by at most one      *)
(* owner, it passes from one owner to the next through a free state, and   *)
(* it leaves an owner only by that owner's release or after its death.     *)
(* Owners are process incarnations, so a process that restarts after a     *)
(* crash is a new owner.                                                   *)
(***************************************************************************)
CONSTANTS Owners,   \* process incarnations
          Free      \* the value of holder when nobody holds the lock

VARIABLES holder,   \* the owner of the lock, or Free
          dead      \* the owners that have crashed

Init == holder = Free /\ dead = {}

Acquire(o) == /\ holder = Free
              /\ o \notin dead
              /\ holder' = o
              /\ UNCHANGED dead

Release(o) == /\ holder = o
              /\ o \notin dead
              /\ holder' = Free
              /\ UNCHANGED dead

Die(o) == /\ o \notin dead
          /\ dead' = dead \cup {o}
          /\ UNCHANGED holder

Reclaim == /\ holder \in dead
           /\ holder' = Free
           /\ UNCHANGED dead

Next == Reclaim \/ \E o \in Owners : Acquire(o) \/ Release(o) \/ Die(o)

Spec == Init /\ [][Next]_<<holder, dead>>
=============================================================================
