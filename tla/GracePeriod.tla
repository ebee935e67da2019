----------------------------- MODULE GracePeriod -----------------------------
(***************************************************************************)
(* What a token manager promises its clients, with neither serial numbers  *)
(* nor counters: a grace period covers the tokens that exist when it       *)
(* starts, and it is over exactly when all of those have been returned and *)
(* it has been told so.  Returning a token and telling each grace period   *)
(* are steps of their own; a client enters again when it is through.       *)
(* (src/inc/BitFunnel/Index/Token.h describes the promise; TokenManager    *)
(* refines this module.)  A token is named after the client that holds it. *)
(***************************************************************************)
EXTENDS Naturals, Sequences

CONSTANT Client

VARIABLES
  active,     \* the clients that hold a token
  blockers,   \* for each grace period, the old tokens it has not seen return
  over        \* the grace periods that observers see as over

vars == <<active, blockers, over>>

TypeOK ==
  /\ active \subseteq Client
  /\ blockers \in Seq(SUBSET Client)
  /\ over \subseteq DOMAIN blockers

(* A grace period is over when it waits for nobody.                        *)
Elapsed(b) == {g \in DOMAIN b : b[g] = {}}

Init ==
  /\ active = {}
  /\ blockers = << >>
  /\ over = {}

Enter(c) ==
  /\ c \notin active /\ \A g \in DOMAIN blockers : c \notin blockers[g]
  /\ active' = active \cup {c}
  /\ UNCHANGED <<blockers, over>>

Leave(c) ==
  /\ c \in active
  /\ active' = active \ {c}
  /\ UNCHANGED <<blockers, over>>

Tell(c, g) ==
  /\ c \in blockers[g] \ active
  /\ blockers' = [blockers EXCEPT ![g] = @ \ {c}]
  /\ over' = Elapsed(blockers')
  /\ UNCHANGED active

Start ==
  /\ blockers' = Append(blockers, active)
  /\ over' = Elapsed(blockers')
  /\ UNCHANGED active

Next ==
  \/ \E c \in Client : Enter(c) \/ Leave(c) \/ \E g \in DOMAIN blockers : Tell(c, g)
  \/ Start

Spec == Init /\ [][Next]_vars
=============================================================================
