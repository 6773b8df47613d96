--------------------------- MODULE SpdmMeasurement ---------------------------
(***************************************************************************)
(* Signed measurements and the L1L2 transcript.  A requester context and a *)
(* responder context exchange GET_MEASUREMENTS / MEASUREMENTS over a link  *)
(* that may lose a message or deliver a response after the requester has  *)
(* given up on it.  Both sides append every request and response to their *)
(* Transcript.L1L2 (L1/L2 = GET_MEASUREMENT, MEASUREMENT\Signature); the  *)
(* responder signs the hash of its L1L2 with SpdmGenerateMeasurementSignature *)
(* and the requester checks it against its own with                       *)
(* SpdmVerifyMeasurementSignature (SpdmCommonLibCryptoService.c).          *)
(*                                                                         *)
(* The two handlers are not in the repository; they are modelled from     *)
(* spec.md (4.1, 4.3, 4.6) and, where it is silent, after the library's   *)
(* own CHALLENGE requester (SpdmRequesterLibChallenge.c): the request is   *)
(* appended after it is sent and the append's result is not checked, an   *)
(* ERROR response removes it again, and the transcript is reset only after *)
(* a signature verified.  The responder resets its L1L2 once it has sent a *)
(* signed MEASUREMENTS, which ends an attestation round.                   *)
(*                                                                         *)
(* Data abstraction.  A transcript is a sequence of items, one per message *)
(* appended, each with its id and the number of bytes appended; a hash is  *)
(* the transcript itself; a signature is the transcript it covers together *)
(* with the chain whose leaf key made it.  Sizes are in bytes.             *)
(***************************************************************************)
EXTENDS Integers, Sequences, SequencesExt

CONSTANTS
  Chains,          \* certificate chains (model values)
  NoChain,         \* a chain pointer that is NULL / of size 0
  ResponderChain,  \* the chain whose leaf key the responder signs with
  ReqHeaderSize,   \* GET_MEASUREMENTS without Nonce and SlotIdParam
  RspHeaderSize,   \* MEASUREMENTS up to MeasurementRecord
  NonceSize,       \* SPDM_NONCE_SIZE
  SignatureSize,   \* GetSpdmAsymSize (BaseAsymAlgo)
  RecordSizes,     \* MeasurementRecordLength values the responder's host returns
  OpaqueSizes,     \* LocalContext.OpaqueMeasurementRspSize values a host sets
  L1L2Cap,         \* MaxBufferSize of Transcript.L1L2
  MaxRequests,     \* bound: GET_MEASUREMENTS calls
  MaxFaults        \* bound: lost messages and early timeouts

ASSUME /\ NoChain \notin Chains /\ ResponderChain \in Chains
       /\ {ReqHeaderSize, RspHeaderSize, NonceSize, SignatureSize, L1L2Cap} \subseteq Nat
       /\ RecordSizes \subseteq Nat /\ OpaqueSizes \subseteq Nat
       /\ MaxRequests \in Nat /\ MaxFaults \in Nat

VARIABLES
  reqL1L2,           \* requester Transcript.L1L2
  reqPeerCertChain,  \* ConnectionInfo.PeerCertChainBuffer
  reqProvision,      \* LocalContext.PeerCertChainProvision
  call,              \* the GET_MEASUREMENTS call in progress / last returned
  requests,          \* calls made so far
  rspL1L2,           \* responder Transcript.L1L2
  rspOpaqueSize,     \* responder LocalContext.OpaqueMeasurementRspSize
  reqChan, rspChan,  \* messages in flight, in order
  faults,
  clean              \* history: no loss, timeout, ERROR or failed append yet

vars == <<reqL1L2, reqPeerCertChain, reqProvision, call, requests, rspL1L2,
          rspOpaqueSize, reqChan, rspChan, faults, clean>>

-----------------------------------------------------------------------------
(* A transcript item: dir, the id of the exchange, bytes appended. *)
Item(dir, id, size) == [dir |-> dir, id |-> id, size |-> size]

BufferSize(buf) == FoldLeft(LAMBDA acc, it : acc + it.size, 0, buf)

(* Mutation of AppendManagedBuffer: no capacity test. *)
AppendIgnoringCapacity(buf, it) == Append(buf, it)

(* AppendManagedBuffer: all of the item, or nothing when it would exceed   *)
(* MaxBufferSize.                                                          *)
Fits(buf, it) == BufferSize(buf) + it.size <= L1L2Cap
AppendManagedBuffer(buf, it) == IF Fits(buf, it) THEN Append(buf, it) ELSE buf

(* ShrinkManagedBuffer: the last n bytes removed, nothing when there are   *)
(* fewer.  An item cut in part keeps its remaining bytes, as a different  *)
(* item.                                                                   *)
RECURSIVE DropBytes(_, _)
DropBytes(buf, n) ==
  IF n = 0 THEN buf
  ELSE IF buf[Len(buf)].size <= n
       THEN DropBytes(SubSeq(buf, 1, Len(buf) - 1), n - buf[Len(buf)].size)
       ELSE [buf EXCEPT ![Len(buf)] = [@ EXCEPT !.dir = "part", !.size = @ - n]]

ShrinkManagedBuffer(buf, n) == IF n > BufferSize(buf) THEN buf ELSE DropBytes(buf, n)

(* A signed GET_MEASUREMENTS carries Nonce and SlotIdParam (one byte). *)
ReqSize(signed) == ReqHeaderSize + IF signed THEN NonceSize + 1 ELSE 0

(* MeasurmentSigSize: Nonce, OpaqueLength (UINT16), opaque data, signature. *)
MeasurmentSigSize(opaque) == NonceSize + 2 + opaque + SignatureSize

ResponseMessageSize(signed, record, opaque) ==
  RspHeaderSize + record + IF signed THEN MeasurmentSigSize(opaque) ELSE 0

Request(id, signed) == [dir |-> "req", id |-> id, signed |-> signed, size |-> ReqSize(signed)]
ErrorResponse(id) == [dir |-> "error", id |-> id, signed |-> FALSE, size |-> 4, sig |-> <<>>]

-----------------------------------------------------------------------------
(* SpdmGenerateMeasurementSignature on the L1L2 that already holds the     *)
(* request: the response minus its signature appended (FALSE when it does *)
(* not fit), the hash of L1L2 signed with the responder's key.  The       *)
(* ASSERT (ResponseMessageSize > MeasurmentSigSize) holds: the response    *)
(* has a header.                                                            *)
SpdmGenerateMeasurementSignature(l1l2, id, rspSize) ==
  LET it == Item("rsp", id, rspSize - SignatureSize)
  IN  IF ~Fits(l1l2, it) THEN [ok |-> FALSE, l1l2 |-> l1l2, sig |-> <<>>]
      ELSE [ok |-> TRUE, l1l2 |-> Append(l1l2, it),
            sig |-> [signer |-> ResponderChain, hash |-> Append(l1l2, it)]]

(* Mutation of ChainForVerify: the provisioned chain taken first. *)
ChainForVerifyProvisionFirst ==
  IF reqProvision # NoChain THEN reqProvision ELSE reqPeerCertChain

(* The chain SpdmVerifyMeasurementSignature takes the leaf key from: the   *)
(* chain received by GET_CERTIFICATE, else the provisioned one, else none. *)
ChainForVerify ==
  IF reqPeerCertChain # NoChain THEN reqPeerCertChain ELSE reqProvision

(* Mutation of SpdmVerifyMeasurementSignature: SpdmAsymVerify checks the   *)
(* key but the hash compared is not that of L1L2.                          *)
VerifyMeasurementSignatureKeyOnly(l1l2, sig) ==
  ChainForVerify # NoChain /\ sig.signer = ChainForVerify

SpdmVerifyMeasurementSignature(l1l2, sig) ==
  ChainForVerify # NoChain /\ sig.signer = ChainForVerify /\ sig.hash = l1l2

-----------------------------------------------------------------------------
(* Requester: GET_MEASUREMENTS, split at the point where it waits for the  *)
(* response.  The request is appended to L1L2 once sent, unchecked.        *)
SendGetMeasurements(signed) ==
  LET req == Request(requests + 1, signed)
      it  == Item("req", req.id, req.size)
  IN  /\ call.pc = "idle"
      /\ requests < MaxRequests
      /\ reqChan' = Append(reqChan, req)
      /\ reqL1L2' = AppendManagedBuffer(reqL1L2, it)
      /\ clean' = (clean /\ Fits(reqL1L2, it))
      /\ call' = [pc |-> "wait", id |-> req.id, signed |-> signed, status |-> "NONE"]
      /\ requests' = requests + 1
      /\ UNCHANGED <<reqPeerCertChain, reqProvision, rspL1L2, rspOpaqueSize, rspChan, faults>>

(* The response at the head of the link, taken as the answer to the call   *)
(* in progress whatever request it answers: an ERROR removes the request   *)
(* from L1L2 (DEVICE_ERROR); a response of the other kind fails the size   *)
(* checks (DEVICE_ERROR); an unsigned one is appended whole (SUCCESS); a   *)
(* signed one is appended without its signature and verified, and L1L2 is *)
(* reset when it verifies (SUCCESS) and kept when not (SECURITY_VIOLATION). *)
ReceiveMeasurements ==
  LET r    == Head(rspChan)
      kept == AppendManagedBuffer(reqL1L2, Item("rsp", r.id, r.size - SignatureSize))
      ok   == SpdmVerifyMeasurementSignature(kept, r.sig)
  IN  /\ call.pc = "wait"
      /\ rspChan # <<>>
      /\ rspChan' = Tail(rspChan)
      /\ CASE r.dir = "error" ->
                /\ reqL1L2' = ShrinkManagedBuffer(reqL1L2, ReqSize(call.signed))
                /\ call' = [call EXCEPT !.pc = "idle", !.status = "DEVICE_ERROR"]
                /\ clean' = FALSE
           [] r.signed # call.signed ->
                /\ UNCHANGED reqL1L2
                /\ call' = [call EXCEPT !.pc = "idle", !.status = "DEVICE_ERROR"]
                /\ clean' = FALSE
           [] ~r.signed ->
                /\ reqL1L2' = AppendManagedBuffer(reqL1L2, Item("rsp", r.id, r.size))
                /\ call' = [call EXCEPT !.pc = "idle", !.status = "SUCCESS"]
                /\ clean' = (clean /\ Fits(reqL1L2, Item("rsp", r.id, r.size)))
           [] OTHER ->
                /\ reqL1L2' = IF ok THEN <<>> ELSE kept
                /\ call' = [call EXCEPT !.pc = "idle",
                                        !.status = IF ok THEN "SUCCESS" ELSE "SECURITY_VIOLATION"]
                /\ clean' = (clean /\ Fits(reqL1L2, Item("rsp", r.id, r.size - SignatureSize)))
      /\ UNCHANGED <<reqPeerCertChain, reqProvision, requests, rspL1L2, rspOpaqueSize,
                     reqChan, faults>>

(* SpdmReceiveSpdmResponse fails: the response was lost, or is late and    *)
(* the transport gives up before it arrives (a fault).  The request stays  *)
(* in L1L2.                                                                *)
Timeout ==
  /\ call.pc = "wait"
  /\ \/ reqChan = <<>> /\ rspChan = <<>> /\ UNCHANGED faults
     \/ faults < MaxFaults /\ faults' = faults + 1
  /\ call' = [call EXCEPT !.pc = "idle", !.status = "NO_RESPONSE"]
  /\ clean' = FALSE
  /\ UNCHANGED <<reqL1L2, reqPeerCertChain, reqProvision, requests, rspL1L2,
                 rspOpaqueSize, reqChan, rspChan>>

-----------------------------------------------------------------------------
(* Responder: GET_MEASUREMENTS.  The request is appended to L1L2, then the *)
(* response with the record the host returns: whole when unsigned, through *)
(* SpdmGenerateMeasurementSignature when signed, after which L1L2 is reset. *)
(* A failed append is answered with ERROR.                                 *)
GetResponseMeasurements(record) ==
  LET q    == Head(reqChan)
      l1   == Append(rspL1L2, Item("req", q.id, q.size))
      size == ResponseMessageSize(q.signed, record, rspOpaqueSize)
      g    == SpdmGenerateMeasurementSignature(l1, q.id, size)
      ItemFits == Fits(l1, Item("rsp", q.id, size))
  IN  /\ reqChan # <<>>
      /\ reqChan' = Tail(reqChan)
      /\ CASE ~Fits(rspL1L2, Item("req", q.id, q.size)) ->
                /\ rspChan' = Append(rspChan, ErrorResponse(q.id))
                /\ UNCHANGED rspL1L2
                /\ clean' = FALSE
           [] ~q.signed /\ ItemFits ->
                /\ rspL1L2' = Append(l1, Item("rsp", q.id, size))
                /\ rspChan' = Append(rspChan, [dir |-> "rsp", id |-> q.id, signed |-> FALSE,
                                               size |-> size, sig |-> <<>>])
                /\ UNCHANGED clean
           [] q.signed /\ g.ok ->
                /\ rspL1L2' = <<>>
                /\ rspChan' = Append(rspChan, [dir |-> "rsp", id |-> q.id, signed |-> TRUE,
                                               size |-> size, sig |-> g.sig])
                /\ UNCHANGED clean
           [] OTHER ->
                /\ rspL1L2' = l1
                /\ rspChan' = Append(rspChan, ErrorResponse(q.id))
                /\ clean' = FALSE
      /\ UNCHANGED <<reqL1L2, reqPeerCertChain, reqProvision, call, requests,
                     rspOpaqueSize, faults>>

(* The link loses the message at the head of either direction. *)
LoseMessage ==
  /\ faults < MaxFaults
  /\ \/ reqChan # <<>> /\ reqChan' = Tail(reqChan) /\ UNCHANGED rspChan
     \/ rspChan # <<>> /\ rspChan' = Tail(rspChan) /\ UNCHANGED reqChan
  /\ faults' = faults + 1
  /\ clean' = FALSE
  /\ UNCHANGED <<reqL1L2, reqPeerCertChain, reqProvision, call, requests, rspL1L2,
                 rspOpaqueSize>>

(* SpdmInitContext on both sides; GET_CERTIFICATE has or has not filled    *)
(* PeerCertChainBuffer, the host may have provisioned a chain, and the     *)
(* responder's host has set its opaque measurement data.                   *)
Init ==
  /\ reqL1L2 = <<>> /\ rspL1L2 = <<>>
  /\ reqPeerCertChain \in Chains \cup {NoChain}
  /\ reqProvision \in Chains \cup {NoChain}
  /\ rspOpaqueSize \in OpaqueSizes
  /\ call = [pc |-> "idle", id |-> 0, signed |-> FALSE, status |-> "NONE"]
  /\ requests = 0
  /\ reqChan = <<>> /\ rspChan = <<>>
  /\ faults = 0
  /\ clean = TRUE

Next ==
  \/ \E signed \in BOOLEAN : SendGetMeasurements(signed)
  \/ ReceiveMeasurements
  \/ Timeout
  \/ \E record \in RecordSizes : GetResponseMeasurements(record)
  \/ LoseMessage

Spec == Init /\ [][Next]_vars

-----------------------------------------------------------------------------
(* Properties                                                              *)

Ids == 0 .. MaxRequests
Items == [dir : {"req", "rsp", "part"}, id : Ids, size : Nat]

MeasTypeOK ==
  /\ \A buf \in {reqL1L2, rspL1L2} : buf \in Seq(Items) /\ BufferSize(buf) <= L1L2Cap
  /\ call.pc \in {"idle", "wait"} /\ call.id \in Ids
  /\ call.status \in {"NONE", "SUCCESS", "DEVICE_ERROR", "NO_RESPONSE", "SECURITY_VIOLATION"}
  /\ {reqPeerCertChain, reqProvision} \subseteq Chains \cup {NoChain}
  /\ requests \in Ids /\ faults \in 0 .. MaxFaults

(* The requester trusts the responder's chain: the one GET_CERTIFICATE     *)
(* returned, or, when none was, the one its host provisioned.             *)
TrustsResponder ==
  \/ reqPeerCertChain = ResponderChain
  \/ reqPeerCertChain = NoChain /\ reqProvision = ResponderChain

(* No false alarm: as long as nothing was lost, no call timed out, no      *)
(* ERROR was returned and every append to either L1L2 fitted, a requester *)
(* that trusts the responder's chain never rejects a signed MEASUREMENTS. *)
(* It rests on both sides appending the same messages with the same sizes *)
(* (the response without its signature), on both resetting L1L2 at the    *)
(* end of every signed round, and on SpdmVerifyMeasurementSignature taking *)
(* the key from the retrieved chain before the provisioned one.           *)
HonestMeasurementVerifies ==
  clean /\ TrustsResponder => call.status # "SECURITY_VIOLATION"

(* A signed MEASUREMENTS the requester accepts answers the request of the *)
(* call in progress, never an earlier one whose call timed out before its *)
(* response arrived: the requester takes whatever response comes next,     *)
(* and only the hash of L1L2, which holds the later request, tells them   *)
(* apart.                                                                  *)
SignedMeasurementAnswersThisRequest ==
  [][ call.pc = "wait" /\ call.signed /\ call'.pc = "idle" /\ call'.status = "SUCCESS"
        => Head(rspChan).id = call.id ]_vars

====
