------------------------- MODULE SpdmSecuredMessage -------------------------
(***************************************************************************)
(* The secured-messages codec of an SPDM session (spec.md 4.10) between a  *)
(* requester and a responder, over a link that may lose, repeat or replay  *)
(* records.  SpdmSecuredMessageLib.h declares SpdmEncodeSecuredMessage and *)
(* SpdmDecodeSecuredMessage; their implementation is not in the            *)
(* repository, so the codec is modelled from the spec:                     *)
(*                                                                         *)
(*  - the key is chosen by session, direction and phase (handshake keys    *)
(*    while Handshaking, data keys once Established);                      *)
(*  - the AEAD nonce is the salt XOR the current sequence number of that  *)
(*    key, which encode increments and refuses to wrap;                   *)
(*  - decode opens only a record sealed under the same key with the        *)
(*    sequence number it expects next, and advances that number; any      *)
(*    failure is DecryptFailed and nothing else.                           *)
(*                                                                         *)
(* A record abstracts the ciphertext to what AEAD binds: session, key      *)
(* (direction, phase), nonce (sequence number) and the message it carries. *)
(* Each party keeps its own view of each session (state and the counters  *)
(* of the four keys).  The requester sends FINISH under the handshake key, *)
(* the responder answers FINISH_RSP and switches to data keys, the         *)
(* requester switches on receiving it, then application requests and     *)
(* responses flow under the data keys.                                     *)
(***************************************************************************)
EXTENDS Integers, Sequences, FiniteSets

CONSTANTS
  Sessions,        \* session ids live at both ends
  SEQ_MAX,         \* the largest sequence number; (UINT64)-1 in the code
  MaxSent,         \* bound: requests the requester seals
  MaxNotify,       \* bound: messages the responder initiates
  MaxLinkFaults    \* bound: records the link loses or duplicates

Dirs == {"req", "rsp"}             \* IsRequester TRUE / FALSE
Phases == {"handshake", "data"}
Endpoints == {"requester", "responder"}

(* SPDM_SESSION_STATE, as far as the codec reads it. *)
PhaseOf(state) == IF state = "Handshaking" THEN "handshake" ELSE "data"

Record == [session : Sessions, dir : Dirs, phase : Phases, seq : 0 .. SEQ_MAX,
           kind : {"finish", "finish_rsp", "app", "app_rsp", "notify"}]

(* A party's view of one session: its state and one counter per key. *)
SessionView == [state : {"Handshaking", "Established"}, seq : [Dirs \X Phases -> 0 .. SEQ_MAX]]
NewSessionView == [state |-> "Handshaking", seq |-> [k \in Dirs \X Phases |-> 0]]

VARIABLES
  view,       \* view[p][s]: party p's secured-message context of session s
  pending,    \* pending[s]: the requester's caller on session s
  toRsp,      \* records in flight to the responder, in order
  toReq,      \* records in flight to the requester
  sent,       \* every record sealed, in order (the wire)
  accepted,   \* accepted[e]: the records endpoint e opened, in order
  linkFaults

codecVars == <<view, pending, toRsp, toReq, sent, accepted, linkFaults>>

(* Mutant: no exhaustion test; the counter is incremented past SEQ_MAX. *)
SpdmEncodeSecuredMessageNoCheck(v, s, dir, kind) ==
  LET k == <<dir, PhaseOf(v[s].state)>>
      n == v[s].seq[k]
  IN  [ok |-> TRUE, view |-> [v EXCEPT ![s].seq[k] = n + 1],
       rec |-> [session |-> s, dir |-> dir, phase |-> k[2], seq |-> n, kind |-> kind]]

(***************************************************************************)
(* SpdmEncodeSecuredMessage(s, dir, kind) with the sender's view v: the    *)
(* record and the view after it, or ok = FALSE (SequenceExhausted) when    *)
(* the number to use is SEQ_MAX and the increment would wrap.             *)
(***************************************************************************)
SpdmEncodeSecuredMessage(v, s, dir, kind) ==
  LET k == <<dir, PhaseOf(v[s].state)>>
      n == v[s].seq[k]
  IN  IF n = SEQ_MAX
      THEN [ok |-> FALSE, view |-> v]
      ELSE [ok |-> TRUE, view |-> [v EXCEPT ![s].seq[k] = n + 1],
            rec |-> [session |-> s, dir |-> dir, phase |-> k[2], seq |-> n, kind |-> kind]]

(* Mutant: the sequence number is advanced before the tag is checked, so *)
(* a failed open consumes it.                                            *)
SpdmDecodeSecuredMessageConsumes(v, dir, r) ==
  LET s == r.session
      k == <<dir, PhaseOf(v[s].state)>>
      n == v[s].seq[k]
  IN  [ok |-> r.dir = dir /\ r.phase = k[2] /\ r.seq = n /\ n # SEQ_MAX,
       view |-> IF n = SEQ_MAX THEN v ELSE [v EXCEPT ![s].seq[k] = n + 1]]

(***************************************************************************)
(* SpdmDecodeSecuredMessage(r.session, dir, r) with the receiver's view v: *)
(* opens r only under the key of dir and the session's current phase, at  *)
(* the expected sequence number; the view after it.                        *)
(***************************************************************************)
SpdmDecodeSecuredMessage(v, dir, r) ==
  LET s == r.session
      k == <<dir, PhaseOf(v[s].state)>>
      n == v[s].seq[k]
  IN  IF r.dir = dir /\ r.phase = k[2] /\ r.seq = n /\ n # SEQ_MAX
      THEN [ok |-> TRUE, view |-> [v EXCEPT ![s].seq[k] = n + 1]]
      ELSE [ok |-> FALSE, view |-> v]

(* The session switches to its data keys. *)
Establish(v, s) == [v EXCEPT ![s].state = "Established"]

(* The response a responder handler builds for an accepted request. *)
Reply(kind) == IF kind = "finish" THEN "finish_rsp" ELSE "app_rsp"

CodecInit ==
  /\ view = [e \in Endpoints |-> [s \in Sessions |-> NewSessionView]]
  /\ pending = [s \in Sessions |-> "finish"]
  /\ toRsp = <<>> /\ toReq = <<>>
  /\ sent = <<>>
  /\ accepted = [e \in Endpoints |-> <<>>]
  /\ linkFaults = 0

(* The requester's caller sends FINISH, or, once Established and idle, an *)
(* application request; SequenceExhausted ends its use of the session.   *)
RequesterSends(s) ==
  /\ pending[s] \in {"finish", "idle"}
  /\ Cardinality({i \in DOMAIN sent : sent[i].dir = "req"}) < MaxSent
  /\ LET e == SpdmEncodeSecuredMessage(view.requester, s, "req",
                                        IF pending[s] = "finish" THEN "finish" ELSE "app")
     IN  IF e.ok
         THEN /\ view' = [view EXCEPT !.requester = e.view]
              /\ toRsp' = Append(toRsp, e.rec)
              /\ sent' = Append(sent, e.rec)
              /\ pending' = [pending EXCEPT ![s] = "await"]
         ELSE /\ pending' = [pending EXCEPT ![s] = "exhausted"]
              /\ UNCHANGED <<view, toRsp, sent>>
  /\ UNCHANGED <<toReq, accepted, linkFaults>>

(***************************************************************************)
(* The responder takes the next record: a record it cannot open is        *)
(* dropped; an opened request is answered under the key of the session's  *)
(* current phase, and FINISH_RSP, once sent, switches it to data keys.    *)
(***************************************************************************)
ResponderReceives ==
  /\ toRsp # <<>>
  /\ toRsp' = Tail(toRsp)
  /\ LET r == Head(toRsp)
         d == SpdmDecodeSecuredMessage(view.responder, "req", r)
         e == SpdmEncodeSecuredMessage(d.view, r.session, "rsp", Reply(r.kind))
     IN  IF ~d.ok
         THEN UNCHANGED <<view, toReq, sent, accepted>>
         ELSE /\ accepted' = [accepted EXCEPT !.responder = Append(@, r)]
              /\ IF e.ok
                 THEN /\ view' = [view EXCEPT !.responder =
                                    IF r.kind = "finish" THEN Establish(e.view, r.session)
                                    ELSE e.view]
                      /\ toReq' = Append(toReq, e.rec)
                      /\ sent' = Append(sent, e.rec)
                 ELSE /\ view' = [view EXCEPT !.responder = d.view]
                      /\ UNCHANGED <<toReq, sent>>
  /\ UNCHANGED <<pending, linkFaults>>

RequesterReceives ==
  /\ toReq # <<>>
  /\ toReq' = Tail(toReq)
  /\ LET r == Head(toReq)
         d == SpdmDecodeSecuredMessage(view.requester, "rsp", r)
     IN  IF ~d.ok
         THEN UNCHANGED <<view, pending, accepted>>
         ELSE /\ view' = [view EXCEPT !.requester =
                            IF r.kind = "finish_rsp" THEN Establish(d.view, r.session)
                            ELSE d.view]
              /\ pending' = IF r.kind = "notify" THEN pending
                            ELSE [pending EXCEPT ![r.session] = "idle"]
              /\ accepted' = [accepted EXCEPT !.requester = Append(@, r)]
  /\ UNCHANGED <<toRsp, sent, linkFaults>>

(* In an established session the responder sends a message of its own    *)
(* (the case SpdmDumpSecuredSpdm.c 185 names), under its data key.       *)
ResponderInitiates(s) ==
  /\ view.responder[s].state = "Established"
  /\ Cardinality({i \in DOMAIN sent : sent[i].kind = "notify"}) < MaxNotify
  /\ LET e == SpdmEncodeSecuredMessage(view.responder, s, "rsp", "notify")
     IN  /\ e.ok
         /\ view' = [view EXCEPT !.responder = e.view]
         /\ toReq' = Append(toReq, e.rec)
         /\ sent' = Append(sent, e.rec)
  /\ UNCHANGED <<pending, toRsp, accepted, linkFaults>>

(* The link loses a record in flight, or delivers again, at the end of  *)
(* the queue, a record sealed earlier for that direction: one still in    *)
(* flight, or one already opened (spec.md 8, replay).                     *)
Drop(q, i) == [j \in 1 .. Len(q) - 1 |-> IF j < i THEN q[j] ELSE q[j + 1]]
LinkLoses ==
  /\ linkFaults < MaxLinkFaults /\ linkFaults' = linkFaults + 1
  /\ \/ \E i \in DOMAIN toRsp : toRsp' = Drop(toRsp, i) /\ UNCHANGED toReq
     \/ \E i \in DOMAIN toReq : toReq' = Drop(toReq, i) /\ UNCHANGED toRsp
  /\ UNCHANGED <<view, pending, sent, accepted>>
LinkReplays ==
  /\ linkFaults < MaxLinkFaults /\ linkFaults' = linkFaults + 1
  /\ \E i \in DOMAIN sent :
       \/ sent[i].dir = "req" /\ toRsp' = Append(toRsp, sent[i]) /\ UNCHANGED toReq
       \/ sent[i].dir = "rsp" /\ toReq' = Append(toReq, sent[i]) /\ UNCHANGED toRsp
  /\ UNCHANGED <<view, pending, sent, accepted>>

CodecNext ==
  \/ \E s \in Sessions : RequesterSends(s)
  \/ ResponderReceives
  \/ \E s \in Sessions : ResponderInitiates(s)
  \/ RequesterReceives
  \/ LinkLoses
  \/ LinkReplays

-----------------------------------------------------------------------------
SecTypeOK ==
  /\ view \in [Endpoints -> [Sessions -> SessionView]]
  /\ pending \in [Sessions -> {"finish", "await", "idle", "exhausted"}]
  /\ {toRsp, toReq, sent} \subseteq Seq(Record)
  /\ accepted \in [Endpoints -> Seq(Record)]
  /\ linkFaults \in 0 .. MaxLinkFaults

====
