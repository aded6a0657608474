------------------------------ MODULE RateWindow ------------------------------
(***************************************************************************)
(* What a fixed-window rate limit promises, whoever asks and in whatever   *)
(* interleaving: a bucket admits at most its limit before it starts a new  *)
(* window, and a bucket that has admitted something does start a new one.  *)
(***************************************************************************)
EXTENDS Naturals

CONSTANTS Buckets, Limit

VARIABLE admitted   \* bucket -> requests admitted in its current window

Admit(b) ==
  /\ admitted[b] < Limit[b]
  /\ admitted' = [admitted EXCEPT ![b] = @ + 1]

Restart(b) ==
  /\ admitted[b] > 0
  /\ admitted' = [admitted EXCEPT ![b] = 0]

WindowInit == admitted = [b \in Buckets |-> 0]

WindowNext == \E b \in Buckets : Admit(b) \/ Restart(b)

Spec == /\ WindowInit /\ [][WindowNext]_admitted
        /\ \A b \in Buckets : WF_admitted(Restart(b))
=============================================================================
