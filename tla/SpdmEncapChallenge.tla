--------------------------- MODULE SpdmEncapChallenge ---------------------------
(***************************************************************************)
(* The requester's side of mutual authentication by encapsulated           *)
(* CHALLENGE (spec.md 4.7): after its own CHALLENGE succeeds with          *)
(* BasicMutAuthReq, the requester answers CHALLENGEs that the responder    *)
(* tunnels to it.                                                          *)
(*                                                                         *)
(* Requester: the end of TrySpdmChallenge (SpdmRequesterLibChallenge.c),   *)
(*   SpdmGetEncapResponseChallengeAuth                                     *)
(*   (SpdmRequesterLibEncapChallengeAuth.c), SpdmGenerateCertChainHash,    *)
(*   the requester branch of SpdmGenerateChallengeAuthSignature and        *)
(*   SpdmGenerateMeasurementSummaryHash (SpdmCommonLibCryptoService.c),    *)
(*   and SpdmInitContext (SpdmCommonLibContextData.c), which a caller      *)
(*   runs to tear the context down after an error.                         *)
(* Responder: the initiator of the encapsulated dialogue.  Its code is     *)
(*   not in the repository; it is modelled from spec.md 4.7 as a peer that *)
(*   sends any sequence of CHALLENGEs and then ends the dialogue.          *)
(*                                                                         *)
(* Data abstraction as in SpdmChallenge: a transcript is a sequence of     *)
(* message tokens, one capacity unit each; a hash is what it covers; a     *)
(* signature is the transcript it was computed over.  MessageMutB is       *)
(* filled by the encapsulated GET_DIGESTS / GET_CERTIFICATE handlers,      *)
(* which are not in the repository: it is a constant.                      *)
(***************************************************************************)
EXTENDS Integers, Sequences, FiniteSets, Functions

CONSTANTS
  Chains, NoChain,     \* certificate chains (model values), NULL chain
  MaxSlotCount,        \* MAX_SPDM_SLOT_COUNT
  SlotCounts,          \* SlotCount values the host sets through SpdmSetData
  SmallCap, LargeCap,  \* MessageMutC (small) and M1M2 (large) capacities
  MessageA, MessageB, MessageC,  \* the own CHALLENGE round's transcripts
  MessageMutB,         \* the encapsulated GET_DIGESTS/GET_CERTIFICATE data
  AsymSizes,           \* signature sizes of the negotiated algorithms
  DeviceMeasurement,   \* what SpdmMeasurementCollectionFunc returns
  ValueTypes, Values, Junk, ZeroHash, MAX_SPDM_MEASUREMENT_BLOCK_COUNT,
  MaxChallenges,       \* SpdmChallenge calls by the caller
  MaxEncapRequests     \* encapsulated CHALLENGEs the responder sends

MS == INSTANCE SpdmMeasurementSummary

(* ZeroMem by SpdmInitContext; nothing in the repository writes it. *)
ProvisionedSlotNum == 0

SlotIndex == 0 .. MaxSlotCount - 1
(* Param1 values a CHALLENGE may carry: every slot, one past, and 0xFF. *)
SlotNums == 0 .. MaxSlotCount \cup {255}
HashTypes == {MS!NoHash, MS!TcbHash, MS!AllHash, 2}

NoMsg == [code |-> "NONE"]

VARIABLES
  slotCount,          \* LocalContext.SlotCount
  certificateChain,   \* LocalContext.CertificateChain[slot]
  reqAsymSize,        \* size of a ReqBaseAsymAlg signature
  baseAsymSize,       \* size of a BaseAsymAlgo signature
  mutC,               \* Transcript.MessageMutC
  m1m2,               \* Transcript.M1M2
  phase,              \* "idle" between calls, "encap" in the dialogue
  calls,              \* SpdmChallenge calls made
  encReq,             \* encapsulated CHALLENGE awaiting an answer
  encRsp,             \* the requester's encapsulated response
  sent                \* encapsulated CHALLENGEs sent so far

encVars == <<slotCount, certificateChain, reqAsymSize, baseAsymSize, mutC,
             m1m2, phase, calls, encReq, encRsp, sent>>

(* AppendManagedBuffer: all or nothing. *)
Fits(buf, data, cap) == Len(buf) + Len(data) <= cap

(* Mutant: the capacity is not checked. *)
AppendIgnoringCapacity(buf, data, cap) == buf \o data

AppendManagedBuffer(buf, data, cap) ==
  IF Fits(buf, data, cap) THEN buf \o data ELSE buf

EncInit ==
  /\ slotCount \in SlotCounts
  /\ certificateChain \in {f \in [SlotIndex -> Chains \cup {NoChain}] :
                             \A s \in SlotIndex : f[s] = NoChain <=> s >= slotCount}
  /\ reqAsymSize \in AsymSizes /\ baseAsymSize \in AsymSizes
  /\ mutC = <<>> /\ m1m2 = <<>>
  /\ phase = "idle" /\ calls = 0
  /\ encReq = NoMsg /\ encRsp = NoMsg /\ sent = 0

(***************************************************************************)
(* TrySpdmChallenge from its appends to its return (lines 209-249): A, B   *)
(* and C go to M1M2 with results ignored; the signature verifies when the  *)
(* responder is honest and M1M2 holds exactly this round, since an honest  *)
(* responder signs A || B || C.  On success M1M2 is reset (line 230) and,  *)
(* with BasicMutAuthReq, SpdmEncapsulatedRequest runs the dialogue; on     *)
(* failure SECURITY_VIOLATION returns with M1M2 as it is (line 222).       *)
(***************************************************************************)
OwnM1M2(m) ==
  AppendManagedBuffer(AppendManagedBuffer(AppendManagedBuffer(
    m, MessageA, LargeCap), MessageB, LargeCap), MessageC, LargeCap)

(* Mutant: line 230 dropped. *)
ChallengeAuthReceivedNoReset(honest, mutAuthReq) ==
  LET m == OwnM1M2(m1m2)
      verified == honest /\ m = MessageA \o MessageB \o MessageC
  IN  /\ m1m2' = m
      /\ phase' = IF verified /\ mutAuthReq THEN "encap" ELSE "idle"

ChallengeAuthReceived(honest, mutAuthReq) ==
  LET m == OwnM1M2(m1m2)
      verified == honest /\ m = MessageA \o MessageB \o MessageC
  IN  /\ m1m2' = IF verified THEN <<>> ELSE m
      /\ phase' = IF verified /\ mutAuthReq THEN "encap" ELSE "idle"

SpdmChallenge ==
  /\ phase = "idle" /\ calls < MaxChallenges
  /\ \E honest, mutAuthReq \in BOOLEAN : ChallengeAuthReceived(honest, mutAuthReq)
  /\ calls' = calls + 1
  /\ UNCHANGED <<slotCount, certificateChain, reqAsymSize, baseAsymSize, mutC,
                 encReq, encRsp, sent>>

(* SpdmInitContext: ZeroMem of the context, the host provisioning the same *)
(* slots and algorithms again through SpdmSetData.                        *)
SpdmInitContext ==
  /\ phase = "idle"
  /\ mutC' = <<>> /\ m1m2' = <<>>
  /\ UNCHANGED <<slotCount, certificateChain, reqAsymSize, baseAsymSize,
                 phase, calls, encReq, encRsp, sent>>

(***************************************************************************)
(* SpdmGenerateChallengeAuthSignature with IsRequester = TRUE (lines       *)
(* 148-198): append the response to MessageMutC, then MessageMutB and      *)
(* MessageMutC to M1M2, each append failing the call; hash M1M2 and sign   *)
(* with ReqBaseAsymAlg into a buffer whose size, SignatureSize, was taken  *)
(* from BaseAsymAlgo (line 160).  The host sign function refuses a buffer  *)
(* smaller than its signature.  Returns the transcripts as the call leaves *)
(* them and the signature.                                                 *)
(***************************************************************************)
SpdmGenerateChallengeAuthSignature(c, m, rsp) ==
  LET c2 == c \o <<rsp>>
      m1 == m \o MessageMutB
      m2 == m1 \o c2
      Result(step, c3, m3) == [failed |-> step, mutC |-> c3, m1m2 |-> m3, sig |-> m3]
  IN  CASE ~Fits(c, <<rsp>>, SmallCap)    -> Result("MessageMutC", c, m)
        [] ~Fits(m, MessageMutB, LargeCap) -> Result("M1M2", c2, m)
        [] ~Fits(m1, c2, LargeCap)         -> Result("M1M2", c2, m1)
        [] reqAsymSize > baseAsymSize      -> Result("sign", c2, m2)
        [] OTHER                           -> Result("none", c2, m2)

(* SpdmGenerateCertChainHash: the hash of CertificateChain[SlotIndex]; its *)
(* ASSERT (SlotIndex < SlotCount) is not compiled into a release build.    *)
(* A slot past the array holds no chain.                                   *)
SpdmGenerateCertChainHash(slot) ==
  IF slot \in SlotIndex THEN certificateChain[slot] ELSE NoChain

(* Mutant: the slot test is off by one, as in the responder's handler. *)
EncapSlotNumRejectedOffByOne(slot) == slot # 255 /\ slot > slotCount

(* Line 68: the slot check. *)
EncapSlotNumRejected(slot) == slot # 255 /\ slot >= slotCount

EncapError(err, cause) == [code |-> "ERROR", err |-> err, cause |-> cause]

(***************************************************************************)
(* SpdmGetEncapResponseChallengeAuth, the whole handler, with the early    *)
(* returns in code order.  Every ERROR leaves MessageMutC and M1M2 as the  *)
(* failed step left them; only a success resets M1M2 (line 138).  The      *)
(* answer's cause names the failed step for the properties.               *)
(***************************************************************************)
SpdmGetEncapResponseChallengeAuth ==
  /\ phase = "encap" /\ encReq # NoMsg
  /\ LET q    == encReq
         c1   == mutC \o <<q>>
         slot == IF q.slot = 255 THEN ProvisionedSlotNum ELSE q.slot
     IN  CASE ~q.wellFormed ->
                /\ encRsp' = EncapError("InvalidRequest", "size")
                /\ UNCHANGED <<mutC, m1m2>>
           [] ~Fits(mutC, <<q>>, SmallCap) ->
                /\ encRsp' = EncapError("InvalidRequest", "mutC")
                /\ UNCHANGED <<mutC, m1m2>>
           [] EncapSlotNumRejected(q.slot) ->
                /\ encRsp' = EncapError("InvalidRequest", "slot")
                /\ mutC' = c1 /\ UNCHANGED m1m2
           [] OTHER ->
                \E summary \in MS!SpdmGenerateMeasurementSummaryHash(q.hashType,
                                                                    DeviceMeasurement) :
                  IF ~summary.ok
                  THEN /\ encRsp' = EncapError("InvalidRequest", "summary")
                       /\ mutC' = c1 /\ UNCHANGED m1m2
                  ELSE LET body == [req |-> q,
                                    attrSlot |-> IF q.slot = 255 THEN 15 ELSE q.slot,
                                    param2 |-> IF q.slot = 255 THEN 0 ELSE 2^q.slot,
                                    certHash |-> SpdmGenerateCertChainHash(slot),
                                    summary |-> summary.hash]
                           r == SpdmGenerateChallengeAuthSignature(c1, m1m2, body)
                       IN  /\ mutC' = r.mutC
                           /\ IF r.failed = "none"
                              THEN /\ encRsp' = [code |-> "CHALLENGE_AUTH", body |-> body,
                                                 sig |-> r.sig]
                                   /\ m1m2' = <<>>
                              ELSE /\ encRsp' = EncapError("UnsupportedRequest", r.failed)
                                   /\ m1m2' = r.m1m2
  /\ encReq' = NoMsg
  /\ UNCHANGED <<slotCount, certificateChain, reqAsymSize, baseAsymSize,
                 phase, calls, sent>>

(***************************************************************************)
(* The responder's side of the dialogue (spec.md 4.7, not in the           *)
(* repository): it sends a CHALLENGE, possibly malformed or for any slot   *)
(* and summary type, takes the answer, and ends the dialogue, after which  *)
(* SpdmChallenge returns to its caller.                                    *)
(***************************************************************************)
EncapSendChallenge ==
  /\ phase = "encap" /\ encReq = NoMsg /\ encRsp = NoMsg
  /\ sent < MaxEncapRequests
  /\ \E slot \in SlotNums, hashType \in HashTypes, wellFormed \in BOOLEAN :
       encReq' = [code |-> "CHALLENGE", id |-> sent + 1, slot |-> slot,
                  hashType |-> hashType, wellFormed |-> wellFormed]
  /\ sent' = sent + 1
  /\ UNCHANGED <<slotCount, certificateChain, reqAsymSize, baseAsymSize, mutC,
                 m1m2, phase, calls, encRsp>>

EncapReceiveResponse ==
  /\ encRsp # NoMsg
  /\ encRsp' = NoMsg
  /\ UNCHANGED <<slotCount, certificateChain, reqAsymSize, baseAsymSize, mutC,
                 m1m2, phase, calls, encReq, sent>>

EncapDialogueEnds ==
  /\ phase = "encap" /\ encReq = NoMsg /\ encRsp = NoMsg
  /\ phase' = "idle"
  /\ UNCHANGED <<slotCount, certificateChain, reqAsymSize, baseAsymSize, mutC,
                 m1m2, calls, encReq, encRsp, sent>>

EncNext ==
  \/ SpdmChallenge
  \/ SpdmGetEncapResponseChallengeAuth
  \/ EncapSendChallenge
  \/ EncapReceiveResponse
  \/ EncapDialogueEnds
  \/ SpdmInitContext

EncSpec == EncInit /\ [][EncNext]_encVars

EncTypeOK ==
  /\ slotCount \in 0 .. MaxSlotCount
  /\ certificateChain \in [SlotIndex -> Chains \cup {NoChain}]
  /\ {reqAsymSize, baseAsymSize} \subseteq AsymSizes
  /\ Len(mutC) <= SmallCap /\ Len(m1m2) <= LargeCap
  /\ phase \in {"idle", "encap"}
  /\ calls \in 0 .. MaxChallenges /\ sent \in 0 .. MaxEncapRequests
  /\ encReq.code \in {"NONE", "CHALLENGE"}
  /\ encRsp.code \in {"NONE", "ERROR", "CHALLENGE_AUTH"}

(* A CHALLENGE_AUTH the requester sends names a chain it holds in a        *)
(* provisioned slot: the slot asked for, with that slot in Param1 and its  *)
(* bit in Param2, or, for 0xFF, the provisioned chain with slot 0xF and    *)
(* Param2 = 0 (spec.md 4.6).  Broken by a slot check that lets SlotCount   *)
(* itself or 0xFF without a provisioned slot through to                    *)
(* SpdmGenerateCertChainHash.                                              *)
EncapAuthNamesProvisionedChain ==
  encRsp.code = "CHALLENGE_AUTH" =>
    LET b == encRsp.body
        s == b.req.slot
    IN  /\ b.certHash \in {certificateChain[i] : i \in 0 .. slotCount - 1}
        /\ s # 255 => b.certHash = certificateChain[s] /\ b.attrSlot = s
                      /\ b.param2 = 2^s
        /\ s = 255 => b.attrSlot = 15 /\ b.param2 = 0

(* The requester's signature in an encapsulated CHALLENGE_AUTH never       *)
(* covers its own CHALLENGE round (MessageB, MessageC): TrySpdmChallenge   *)
(* resets M1M2 before it runs the dialogue, and a round that failed and    *)
(* left them in M1M2 cannot start one.                                     *)
EncapSignatureExcludesOwnRound ==
  encRsp.code = "CHALLENGE_AUTH" =>
    \A i \in DOMAIN encRsp.sig : encRsp.sig[i] \notin Range(MessageB \o MessageC)

(* The requester signs one encapsulated exchange: MessageMutB and this     *)
(* CHALLENGE with its CHALLENGE_AUTH, after MessageA or not (spec.md 4.5:  *)
(* M1M2 is reset after a challenge completes, and a ledger holds one       *)
(* exchange).  Broken when MessageMutC or M1M2 keeps an earlier exchange.  *)
EncapSignatureOverOneExchange ==
  encRsp.code = "CHALLENGE_AUTH" =>
    \E pre \in {<<>>, MessageA} :
      encRsp.sig = pre \o MessageMutB \o <<encRsp.body.req, encRsp.body>>

(* The requester signs H(A || MutB || MutC) (spec.md 4.5, "requester       *)
(* view" of build_m1m2), the transcript the responder verifies.            *)
EncapSignatureOverSpecTranscript ==
  encRsp.code = "CHALLENGE_AUTH" =>
    encRsp.sig = MessageA \o MessageMutB \o <<encRsp.body.req, encRsp.body>>

(* The requester never refuses an encapsulated CHALLENGE because its sign  *)
(* function had too small a buffer for a ReqBaseAsymAlg signature.         *)
RequesterSignatureFits ==
  encRsp.code = "ERROR" => encRsp.cause # "sign"
==================================================================================
