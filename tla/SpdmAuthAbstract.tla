--------------------------- MODULE SpdmAuthAbstract ---------------------------
(***************************************************************************)
(* What device authentication by CHALLENGE promises the requester's caller *)
(* (spec.md 4.5), with no transcripts, retries or link: a call is busy     *)
(* until it returns; while busy it has at most one outstanding request;    *)
(* the responder produces answers and never withdraws one; a call returns  *)
(* Authenticated only with an answer the responder gave to the call's      *)
(* outstanding request, for the chain that answer names, and the           *)
(* connection is Authenticated only after such a return.  Every call       *)
(* returns.  SpdmChallenge refines this module.                            *)
(***************************************************************************)
CONSTANTS
  Requests,        \* the CHALLENGE requests a requester may send
  Bodies,          \* the CHALLENGE_AUTH bodies a responder may produce
  None,            \* no request outstanding
  NamedChain(_)    \* the certificate chain an answer's body names

VARIABLES
  verdict,         \* "none" before any call, "busy", "failed", or the success
  pending,         \* the outstanding request of the busy call, or None
  answers,         \* every [req, body] the responder produced
  authenticated    \* the connection reached Authenticated

authVars == <<verdict, pending, answers, authenticated>>

NoVerdict == [status |-> "none"]
Busy == [status |-> "busy"]
Failed == [status |-> "failed"]
Authenticated(req, body) ==
  [status |-> "authenticated", req |-> req, body |-> body, chain |-> NamedChain(body)]

Answers == [req : Requests, body : Bodies]

AuthInit ==
  /\ verdict = NoVerdict
  /\ pending = None
  /\ answers = {}
  /\ authenticated = FALSE

(* The caller starts a call. *)
Call ==
  /\ verdict # Busy
  /\ verdict' = Busy
  /\ pending' = None
  /\ UNCHANGED <<answers, authenticated>>

(* The busy call sends a (new) request. *)
Send ==
  /\ verdict = Busy
  /\ pending' \in Requests
  /\ UNCHANGED <<verdict, answers, authenticated>>

(* The responder produces one more answer, to any request. *)
Answer ==
  /\ answers \subseteq answers'
  /\ answers' \ answers # {}
  /\ answers' \ answers \subseteq Answers
  /\ UNCHANGED <<verdict, pending, authenticated>>

Fail ==
  /\ verdict = Busy
  /\ verdict' = Failed
  /\ pending' = None
  /\ UNCHANGED <<answers, authenticated>>

Authenticate ==
  /\ verdict = Busy
  /\ \E a \in answers :
       /\ a.req = pending
       /\ verdict' = Authenticated(pending, a.body)
  /\ pending' = None
  /\ authenticated' = TRUE
  /\ UNCHANGED answers

Return == Fail \/ Authenticate

AuthNext == Call \/ Send \/ Answer \/ Return

AuthSpec == AuthInit /\ [][AuthNext]_authVars /\ WF_authVars(Return)
================================================================================
