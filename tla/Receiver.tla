------------------------------ MODULE Receiver ------------------------------
(***************************************************************************)
(* What a camera may rely on from cloudlink: the abstract life of one      *)
(* device's observations.  An observation is taken at most once, with one  *)
(* content, stays as taken until it is retired, and never comes back.      *)
(* Observations implements this specification; Camera uploads against it.  *)
(***************************************************************************)
CONSTANTS Obs,      \* observation ids
          Prints,   \* contents
          NoPrint   \* no content

VARIABLES gallery,  \* per observation: absent, kept with its content, or retired
          closed    \* the device is deleted, and its observations with it

Absent == [state |-> "absent", fp |-> NoPrint]
Retired == [state |-> "retired", fp |-> NoPrint]
Kept(f) == [state |-> "kept", fp |-> f]

Init == gallery = [o \in Obs |-> Absent] /\ closed = FALSE

\* An upload is accepted.
Take(o, f) ==
  /\ ~closed /\ gallery[o] = Absent
  /\ gallery' = [gallery EXCEPT ![o] = Kept(f)]
  /\ closed' = closed

\* The capture is past its retention; one never accepted is retired as well.
Retire(o) ==
  /\ gallery[o] # Retired
  /\ gallery' = [gallery EXCEPT ![o] = Retired]
  /\ closed' = closed

Close ==
  /\ ~closed /\ closed' = TRUE
  /\ gallery' = [o \in Obs |-> Absent]

Next == Close \/ \E o \in Obs : Retire(o) \/ \E f \in Prints : Take(o, f)

Spec == Init /\ [][Next]_<<gallery, closed>>
=============================================================================
