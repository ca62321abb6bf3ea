--------------------------- MODULE Dissemination ---------------------------
(***************************************************************************)
(* What flooding promises, without queues, sequence numbers, MPRs or TTL:  *)
(* a message that its originator has published is handled at most once by  *)
(* each other router, never by the originator itself, and by every router  *)
(* of `audience' unless the network fails (a copy is lost, or a router     *)
(* forgets what it has seen).                                              *)
(***************************************************************************)
EXTENDS Naturals

CONSTANT Router

VARIABLES
    originator,
    published,   \* the message has been sent
    handled,     \* [Router -> Nat]: times a router has handled it
    audience,    \* the routers that must get it
    faulty       \* something was lost or forgotten

vars == <<originator, published, handled, audience, faulty>>

Init ==
    /\ originator \in Router
    /\ published = FALSE
    /\ handled = [r \in Router |-> 0]
    /\ audience = {}
    /\ faulty = FALSE

Publish ==
    /\ ~published /\ published' = TRUE
    /\ audience' \in SUBSET (Router \ {originator})
    /\ faulty' \in BOOLEAN
    /\ UNCHANGED <<originator, handled>>

(* A fault may come with the step: the copies that r forwards are lost. *)
Deliver(r) ==
    /\ published
    /\ r # originator
    /\ handled[r] = 0
    /\ handled' = [handled EXCEPT ![r] = 1]
    /\ faulty' \in {faulty, TRUE}
    /\ UNCHANGED <<originator, published, audience>>

(* r no longer knows whether it has handled the message, nor who must get  *)
(* it through r.                                                           *)
Forget(r) ==
    /\ handled' = [handled EXCEPT ![r] = 0]
    /\ audience' \in SUBSET (Router \ {originator})
    /\ faulty' = TRUE
    /\ UNCHANGED <<originator, published>>

Next == Publish \/ \E r \in Router : Deliver(r) \/ Forget(r)

Spec ==
    /\ Init /\ [][Next]_vars
    /\ \A r \in Router : WF_vars(r \in audience /\ ~faulty /\ Deliver(r))
=============================================================================
