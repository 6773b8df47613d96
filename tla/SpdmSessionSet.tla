--------------------------- MODULE SpdmSessionSet ---------------------------
(***************************************************************************)
(* What the session registry of an SPDM endpoint context promises its      *)
(* callers, with no slots and no allocators: a set of live session ids of  *)
(* at most MaxSessions members.  Assigning succeeds exactly when the id is *)
(* not the sentinel, not already live and there is room; freeing succeeds  *)
(* exactly when the id is live; a lookup finds exactly the live ids.       *)
(* Every call reports "ok" or "null" (the C functions return a slot        *)
(* pointer or NULL).  SpdmSessionRegistry refines this module.             *)
(***************************************************************************)
EXTENDS Naturals, FiniteSets

CONSTANTS
    MaxSessions,    \* MAX_SPDM_SESSION_COUNT
    Ids,            \* the session ids callers may name
    InvalidId       \* INVALID_SESSION_ID, the "free" sentinel

VARIABLES
    live,           \* the set of session ids that have a slot
    outcome         \* what the last call returned: "ok" or "null"

absVars == <<live, outcome>>

AbsInit ==
    /\ live = {}
    /\ outcome = "null"

Assign(id) ==
    \/ /\ id # InvalidId
       /\ id \notin live
       /\ Cardinality(live) < MaxSessions
       /\ live' = live \cup {id}
       /\ outcome' = "ok"
    \/ /\ id = InvalidId \/ id \in live \/ Cardinality(live) = MaxSessions
       /\ outcome' = "null"
       /\ UNCHANGED live

Free(id) ==
    \/ /\ id \in live
       /\ live' = live \ {id}
       /\ outcome' = "ok"
    \/ /\ id \notin live
       /\ outcome' = "null"
       /\ UNCHANGED live

Lookup(id) ==
    /\ outcome' = IF id \in live THEN "ok" ELSE "null"
    /\ UNCHANGED live

AbsNext == \E id \in Ids : Assign(id) \/ Free(id) \/ Lookup(id)

AbsSpec == AbsInit /\ [][AbsNext]_absVars
=============================================================================
