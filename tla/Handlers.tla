------------------------------- MODULE Handlers ------------------------------
(***************************************************************************)
(* What the controllers share: a request handler runs between two awaits    *)
(* without interruption, and a query takes effect in the database at one    *)
(* instant, so a handler is one action per query, each followed by the code *)
(* up to the next query.  Slots are the handlers that can be in flight      *)
(* together; None stands for no request and for no answer.                  *)
(***************************************************************************)
EXTENDS Documents, Naturals, FiniteSets

CONSTANTS Slots, None

ASSUME SlotsAssumption == IsFiniteSet(Slots)
ASSUME IdsAssumption == IsFiniteSet(Ids)
==============================================================================
