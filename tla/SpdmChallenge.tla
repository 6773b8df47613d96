--------------------------- MODULE SpdmChallenge ---------------------------
(***************************************************************************)
(* One SPDM requester context and one SPDM responder context, connected by *)
(* a transport that may lose, duplicate, delay or corrupt messages, and    *)
(* the CHALLENGE / CHALLENGE_AUTH exchange between them.                   *)
(*                                                                         *)
(* Requester: SpdmChallenge / TrySpdmChallenge                             *)
(*   (SpdmRequesterLibChallenge.c), with the checks of                     *)
(*   SpdmVerifyCertificateChainHash, SpdmVerifyChallengeAuthSignature,     *)
(*   SpdmVerifyDigest and SpdmVerifyCertificateChain                       *)
(*   (SpdmCommonLibCryptoService.c).                                       *)
(* Responder: SpdmGetResponseChallenge and SpdmGenerateChallengeSignature  *)
(*   (SpdmResponderLibChallengeAuth.c).                                    *)
(* Hosts: the SpdmSetData cases that change what the exchange reads        *)
(*   (SpdmCommonLibContextData.c).                                         *)
(*                                                                         *)
(* Data abstraction.  A transcript (managed buffer) is a sequence of       *)
(* message tokens, one capacity unit each; a hash of a buffer is the       *)
(* buffer itself; a signature is the transcript it was computed over; a    *)
(* certificate chain is a model value whose root hash is the chain itself. *)
(* All chains a responder is provisioned with carry the responder's leaf   *)
(* key, so a signature verifies exactly when the signed M1M2 equals the    *)
(* verifier's M1M2.  Nonces are distinct numbers.                          *)
(***************************************************************************)
EXTENDS Integers, Sequences, FiniteSets

CONSTANTS
  Chains,          \* certificate chains a host may provision (model values)
  NoChain,         \* a chain pointer that is NULL / of size 0
  MaxSlotCount,    \* MAX_SPDM_SLOT_COUNT
  RetryTimes,      \* SpdmContext->RetryTimes = MAX_SPDM_REQUEST_RETRY_TIMES
  SmallCap,        \* capacity of MessageA / MessageC, in messages
  LargeCap,        \* capacity of MessageB / M1M2, in messages
  HashTypes,       \* MeasurementHashType values a caller passes to SpdmChallenge
  SlotNums,        \* SlotNum values a caller passes to SpdmChallenge
  CapChoices,      \* capability flag sets the responder host may set
  MaxCalls,        \* bound: requester API calls (GET_DIGESTS, GET_CERTIFICATE, CHALLENGE)
  MaxFaults,       \* bound: transport faults
  MaxSetData       \* bound: SpdmSetData calls of both hosts

ASSUME /\ NoChain \notin Chains
       /\ MaxSlotCount \in 1..8 /\ RetryTimes \in Nat
       /\ SmallCap \in Nat \ {0} /\ LargeCap \in Nat \ {0}
       /\ HashTypes \subseteq 0..255 /\ SlotNums \subseteq 0..255
       /\ CapChoices \subseteq SUBSET {"CHAL_CAP", "MUT_AUTH_CAP"}
       /\ MaxCalls \in Nat /\ MaxFaults \in Nat /\ MaxSetData \in Nat

VARIABLES
  \* requester context
  reqA, reqB, reqC, reqM1M2,   \* Transcript.MessageA/B/C, Transcript.M1M2
  reqCmdReceiveState,          \* SpdmCmdReceiveState (set of RECEIVE_FLAGs)
  reqConnectionState,          \* ConnectionInfo.ConnectionState
  reqPeerCaps,                 \* ConnectionInfo.Capability.Flags
  reqPeerCertChain,            \* ConnectionInfo.PeerCertChainBuffer
  reqCertChainProvision,       \* LocalContext.PeerCertChainProvision
  reqRootHashProvision,        \* LocalContext.PeerRootCertHashProvision
  reqErrorState,               \* ErrorState
  call,                        \* the SpdmChallenge call in progress / last returned
  calls,                       \* requester API calls made so far
  \* responder context
  rspA, rspB, rspC, rspM1M2,
  rspSlotCount,                \* LocalContext.SlotCount
  rspCertificateChain,         \* LocalContext.CertificateChain[0..MAX-1]
  rspCaps,                     \* LocalContext.Capability.Flags
  rspResponseState,            \* ResponseState
  \* transport
  reqChan, rspChan, faults,
  setDataCalls,                \* SpdmSetData calls made so far, both hosts
  \* history: every CHALLENGE_AUTH the responder produced
  emitted

reqVars == <<reqA, reqB, reqC, reqM1M2, reqCmdReceiveState, reqConnectionState,
             reqPeerCaps, reqPeerCertChain, reqCertChainProvision,
             reqRootHashProvision, reqErrorState, call, calls>>
rspVars == <<rspA, rspB, rspC, rspM1M2, rspSlotCount, rspCertificateChain,
             rspCaps, rspResponseState>>
netVars == <<reqChan, rspChan, faults>>
vars == <<reqVars, rspVars, netVars, setDataCalls, emitted>>

-----------------------------------------------------------------------------
(* Connection states, in the order SpdmConnectionState declares them. *)
ConnStates == <<"NotStarted", "AfterVersion", "AfterCapabilities",
                "AfterNegotiateAlgorithms", "AfterDigests", "AfterCertificate",
                "Authenticated">>
Rank(s) == CHOOSE i \in 1..Len(ConnStates) : ConnStates[i] = s
Advance(s, t) == IF Rank(t) > Rank(s) THEN t ELSE s

Slots == 0..(MaxSlotCount - 1)
ProvisionedSlot == 255                       \* SlotNum 0xFF
AllChains == Chains \cup {NoChain}
Statuses == {"NONE", "SUCCESS", "DEVICE_ERROR", "INVALID_PARAMETER",
             "SECURITY_VIOLATION", "NO_RESPONSE"}
NoMsg == [code |-> "NONE"]

(* Managed buffers: AppendManagedBuffer appends all of Buffer, or nothing  *)
(* when size + BufferSize would exceed MaxBufferSize (BUFFER_TOO_SMALL).   *)
AppendManagedBuffer(buf, data, cap) ==
  IF Len(buf) + Len(data) > cap THEN buf ELSE buf \o data
ShrinkManagedBuffer(buf, n) ==
  IF n > Len(buf) THEN buf ELSE SubSeq(buf, 1, Len(buf) - n)

(* The M1M2 a side holds after appending A, B and C, each call on its own. *)
AppendM1M2(m, a, b, c) ==
  AppendManagedBuffer(AppendManagedBuffer(AppendManagedBuffer(m, a, LargeCap),
                                          b, LargeCap), c, LargeCap)

(* SPDM_CHALLENGE_AUTH_RESPONSE_ATTRIBUTE packed in Param1. *)
AttrSlotNum(p1) == p1 % 16
AttrBasicMutAuthReq(p1) == p1 \div 128 = 1
(* Param2 of the response is a UINT8: 1 << SlotNum truncated to 8 bits. *)
SlotMask(s) == (2 ^ s) % 256

-----------------------------------------------------------------------------
(* The chain the requester checks a peer against: the chain received by  *)
(* GET_CERTIFICATE if any, else the provisioned chain, else none.        *)
PeerChainForVerify ==
  IF reqPeerCertChain # NoChain THEN reqPeerCertChain ELSE reqCertChainProvision

SpdmVerifyCertificateChainHash(chainHash) ==
  PeerChainForVerify # NoChain /\ chainHash = PeerChainForVerify

(* Mutation of SpdmVerifyChallengeAuthSignature: SpdmAsymVerify's result *)
(* ignored.                                                               *)
SignatureNotVerified(sig, m1m2) == PeerChainForVerify # NoChain

(* M1M2 hashed and checked with the leaf key of PeerChainForVerify. *)
SpdmVerifyChallengeAuthSignature(sig, m1m2) ==
  PeerChainForVerify # NoChain /\ sig = m1m2

(* Digest of slot 0 against the provisioned chain, when one is provisioned. *)
SpdmVerifyDigest(digest) ==
  reqCertChainProvision # NoChain => digest = reqCertChainProvision

(* A received chain: well formed, then root hash provision, else chain    *)
(* provision, checked in that order.                                      *)
SpdmVerifyCertificateChain(chain) ==
  /\ chain # NoChain
  /\ IF reqRootHashProvision # NoChain THEN chain = reqRootHashProvision
     ELSE reqCertChainProvision # NoChain => chain = reqCertChainProvision

-----------------------------------------------------------------------------
(* SpdmInitContext on both sides, followed by the hosts' provisioning     *)
(* through SpdmSetData: peer chain and root hash provisions, SlotCount     *)
(* with a chain in each slot below it, capability flags, ResponseState. *)
Init ==
  /\ reqA = <<>> /\ reqB = <<>> /\ reqC = <<>> /\ reqM1M2 = <<>>
  /\ reqCmdReceiveState = {}
  /\ reqConnectionState = "NotStarted"
  /\ reqPeerCaps = {}
  /\ reqPeerCertChain = NoChain
  /\ reqCertChainProvision \in AllChains
  /\ reqRootHashProvision \in AllChains
  /\ reqErrorState = "SUCCESS"
  /\ call = [pc |-> "idle", slot |-> 0, hashType |-> 0, retry |-> RetryTimes,
             req |-> NoMsg, got |-> NoMsg, chain |-> NoChain,
             status |-> "NONE", synced |-> TRUE, syncedAtStart |-> TRUE]
  /\ calls = 0
  /\ rspA = <<>> /\ rspB = <<>> /\ rspC = <<>> /\ rspM1M2 = <<>>
  /\ rspSlotCount \in 0..MaxSlotCount
  /\ rspCertificateChain \in {f \in [Slots -> AllChains] :
                               \A s \in Slots : f[s] = NoChain <=> s >= rspSlotCount}
  /\ rspCaps \in CapChoices
  /\ rspResponseState \in {"Normal", "Busy"}
  /\ reqChan = <<>> /\ rspChan = <<>> /\ faults = 0
  /\ setDataCalls = 0
  /\ emitted = {}
-----------------------------------------------------------------------------
(***************************************************************************)
(* Requester: SpdmChallenge and TrySpdmChallenge.  TrySpdmChallenge runs   *)
(* in two steps, split at SpdmReceiveSpdmResponse, the point where the     *)
(* requester waits for the link.                                           *)
(***************************************************************************)

(* Mutation of TryReturn: the loop retries on NO_RESPONSE without        *)
(* decrementing Retry.                                                     *)
TryReturnNoDecrement(st, got) ==
  IF st = "NO_RESPONSE" /\ call.retry # 0
  THEN call' = [call EXCEPT !.pc = "try", !.got = got]
  ELSE call' = [call EXCEPT !.pc = "idle", !.status = st, !.got = got,
                            !.chain = PeerChainForVerify,
                            !.synced = @ /\ (st = "SUCCESS" \/ call.req = NoMsg)]

(* Mutation of TryReturn: the loop tests Retry-- >= 0 on the unsigned     *)
(* Retry, so it keeps decrementing past zero.                              *)
TryReturnUnsignedTest(st, got) ==
  IF st = "NO_RESPONSE" /\ call.retry >= 0
  THEN call' = [call EXCEPT !.pc = "try", !.retry = @ - 1, !.got = got]
  ELSE call' = [call EXCEPT !.pc = "idle", !.status = st, !.got = got,
                            !.chain = PeerChainForVerify,
                            !.synced = @ /\ (st = "SUCCESS" \/ call.req = NoMsg)]

(* Return from TrySpdmChallenge with status st, through the loop of        *)
(* SpdmChallenge: NO_RESPONSE tries again while Retry-- != 0.              *)
(* synced records that every CHALLENGE sent so far was answered with      *)
(* SUCCESS; syncedAtStart is its value when the current call began.       *)
TryReturn(st, got) ==
  IF st = "NO_RESPONSE" /\ call.retry # 0
  THEN call' = [call EXCEPT !.pc = "try", !.retry = @ - 1, !.got = got]
  ELSE call' = [call EXCEPT !.pc = "idle", !.status = st, !.got = got,
                            !.chain = PeerChainForVerify,
                            !.synced = @ /\ (st = "SUCCESS" \/ call.req = NoMsg)]

(* SpdmChallenge(SlotNum, MeasurementHashType): Retry = RetryTimes. *)
SpdmChallenge(slot, hashType) ==
  /\ call.pc = "idle"
  /\ calls < MaxCalls
  /\ calls' = calls + 1
  /\ call' = [call EXCEPT !.pc = "try", !.slot = slot, !.hashType = hashType,
                          !.retry = RetryTimes, !.req = NoMsg,
                          !.syncedAtStart = call.synced]
  /\ UNCHANGED <<reqA, reqB, reqC, reqM1M2, reqCmdReceiveState,
                 reqConnectionState, reqPeerCaps, reqPeerCertChain,
                 reqCertChainProvision, reqRootHashProvision, reqErrorState,
                 rspVars, netVars, setDataCalls, emitted>>

(* The early returns of TrySpdmChallenge, before anything is sent. *)
ChallengePrecondition ==
  CASE ~({"GET_CAPABILITIES", "NEGOTIATE_ALGORITHMS", "GET_DIGESTS"}
           \subseteq reqCmdReceiveState)                   -> "DEVICE_ERROR"
    [] "CHAL_CAP" \notin reqPeerCaps                       -> "DEVICE_ERROR"
    [] call.slot >= MaxSlotCount /\ call.slot # ProvisionedSlot
                                                           -> "INVALID_PARAMETER"
    [] call.slot = ProvisionedSlot /\ reqCertChainProvision = NoChain
                                                           -> "INVALID_PARAMETER"
    [] OTHER                                               -> "NONE"

(* TrySpdmChallenge up to the receive: checks, ErrorState, send, and      *)
(* MessageC += request (its result ignored).  The nonce is fresh per try. *)
TrySpdmChallengeSend ==
  /\ call.pc = "try"
  /\ LET req == [code |-> "CHALLENGE", slot |-> call.slot,
                 hashType |-> call.hashType, nonce |-> <<calls, call.retry>>]
     IN \/ /\ ChallengePrecondition # "NONE"
           /\ TryReturn(ChallengePrecondition, NoMsg)
           /\ UNCHANGED <<reqErrorState, reqC, netVars>>
        \/ /\ ChallengePrecondition = "NONE"
           /\ reqErrorState' = "NO_CAPABILITIES"
           /\ \/ /\ faults < MaxFaults                \* SpdmSendSpdmRequest fails
                 /\ faults' = faults + 1
                 /\ TryReturn("DEVICE_ERROR", NoMsg)
                 /\ UNCHANGED <<reqC, reqChan, rspChan>>
              \/ /\ reqChan' = Append(reqChan, req)
                 /\ reqC' = AppendManagedBuffer(reqC, <<req>>, SmallCap)
                 /\ call' = [call EXCEPT !.pc = "wait", !.req = req]
                 /\ UNCHANGED <<rspChan, faults>>
  /\ UNCHANGED <<reqA, reqB, reqM1M2, reqCmdReceiveState, reqConnectionState,
                 reqPeerCaps, reqPeerCertChain, reqCertChainProvision,
                 reqRootHashProvision, calls, rspVars, setDataCalls, emitted>>

(* The format checks of a CHALLENGE_AUTH: size, Param1/Param2 against    *)
(* SlotNum, and BasicMutAuthReq against the peer's MUT_AUTH_CAP.          *)
ChallengeAuthWellFormed(m) ==
  /\ m.code = "CHALLENGE_AUTH"
  /\ ~m.truncated
  /\ IF call.slot = ProvisionedSlot
     THEN AttrSlotNum(m.body.param1) = 15 /\ m.body.param2 = 0
     ELSE AttrSlotNum(m.body.param1) = call.slot
          /\ m.body.param2 = SlotMask(call.slot)
  /\ AttrBasicMutAuthReq(m.body.param1) => "MUT_AUTH_CAP" \in reqPeerCaps

(* TrySpdmChallenge from SpdmReceiveSpdmResponse to its return.  An ERROR *)
(* goes to SpdmHandleErrorResponseMain, which removes the request from    *)
(* MessageC and maps Busy to NO_RESPONSE and any other code to            *)
(* DEVICE_ERROR.  The encapsulated mutual authentication (lines 236-244)  *)
(* is not reached: SpdmGetResponseChallenge never sets BasicMutAuthReq    *)
(* and the signature covers Param1.                                      *)
ProcessChallengeAuth(m) ==
  \/ /\ m.code = "ERROR"
     /\ reqC' = ShrinkManagedBuffer(reqC, 1)
     /\ TryReturn(IF m.err = "Busy" THEN "NO_RESPONSE" ELSE "DEVICE_ERROR", m)
     /\ UNCHANGED <<reqM1M2, reqErrorState, reqCmdReceiveState, reqConnectionState>>
  \/ /\ m.code = "CHALLENGE_AUTH"
     /\ ~ChallengeAuthWellFormed(m)
     /\ TryReturn("DEVICE_ERROR", m)
     /\ UNCHANGED <<reqC, reqM1M2, reqErrorState, reqCmdReceiveState, reqConnectionState>>
  \/ /\ ChallengeAuthWellFormed(m)
     /\ ~SpdmVerifyCertificateChainHash(m.body.chainHash)
     /\ reqErrorState' = "CERTIFICATE_FAILURE"
     /\ TryReturn("SECURITY_VIOLATION", m)
     /\ UNCHANGED <<reqC, reqM1M2, reqCmdReceiveState, reqConnectionState>>
  \/ /\ ChallengeAuthWellFormed(m)
     /\ SpdmVerifyCertificateChainHash(m.body.chainHash)
     /\ LET c    == AppendManagedBuffer(reqC, <<m.body>>, SmallCap)
            m1m2 == AppendM1M2(reqM1M2, reqA, reqB, c)
        IN /\ reqC' = c
           /\ IF SpdmVerifyChallengeAuthSignature(m.sig, m1m2)
              THEN /\ reqErrorState' = "SUCCESS"
                   /\ reqM1M2' = <<>>
                   /\ reqCmdReceiveState' = reqCmdReceiveState \cup {"CHALLENGE"}
                   /\ reqConnectionState' = "Authenticated"
                   /\ TryReturn("SUCCESS", m)
              ELSE /\ reqErrorState' = "CERTIFICATE_FAILURE"
                   /\ reqM1M2' = m1m2
                   /\ TryReturn("SECURITY_VIOLATION", m)
                   /\ UNCHANGED <<reqCmdReceiveState, reqConnectionState>>

TrySpdmChallengeReceive ==
  /\ call.pc = "wait"
  /\ \/ /\ rspChan = <<>>                     \* SpdmReceiveSpdmResponse fails
        /\ TryReturn("DEVICE_ERROR", NoMsg)
        /\ UNCHANGED <<reqC, reqM1M2, reqErrorState, reqCmdReceiveState,
                       reqConnectionState, rspChan>>
     \/ /\ rspChan # <<>>
        /\ rspChan' = Tail(rspChan)
        /\ ProcessChallengeAuth(Head(rspChan))
  /\ UNCHANGED <<reqA, reqB, reqPeerCaps, reqPeerCertChain, reqCertChainProvision,
                 reqRootHashProvision, calls, rspVars, reqChan, faults, setDataCalls, emitted>>

-----------------------------------------------------------------------------
(***************************************************************************)
(* Responder.                                                              *)
(***************************************************************************)
ErrorMsg(err) == [code |-> "ERROR", err |-> err]

(* LocalContext.CertificateChain[SlotNum].  An index past the array reads *)
(* whatever lies behind it: any chain, or none.                           *)
CertificateChainAt(slot) ==
  IF slot \in Slots THEN {rspCertificateChain[slot]} ELSE AllChains

(* SpdmGetResponseChallenge, with SpdmCalculateCertChainHash,             *)
(* CalculateMeasurementSummaryHash and SpdmGenerateChallengeSignature;    *)
(* c is MessageC with the request already in it.  The signature is over   *)
(* M1M2 after A, B and C were appended, results ignored; M1M2 is not      *)
(* reset.                                                                  *)
SpdmGetResponseChallenge(req, c) ==
  \/ /\ req.slot > rspSlotCount
     /\ rspChan' = Append(rspChan, ErrorMsg("InvalidRequest"))
     /\ rspC' = c
     /\ UNCHANGED <<rspM1M2, emitted>>
  \/ /\ req.slot <= rspSlotCount
     /\ req.hashType \notin {0, 1, 255}
     /\ rspChan' = Append(rspChan, ErrorMsg("InvalidRequest"))
     /\ rspC' = c
     /\ UNCHANGED <<rspM1M2, emitted>>
  \/ /\ req.slot <= rspSlotCount
     /\ req.hashType \in {0, 1, 255}
     /\ \E chain \in CertificateChainAt(req.slot) :
          LET body == [code |-> "CHALLENGE_AUTH", param1 |-> req.slot,
                       param2 |-> SlotMask(req.slot), chainHash |-> chain,
                       nonce |-> Cardinality(emitted) + 1, meas |-> req.hashType]
              c2   == AppendManagedBuffer(c, <<body>>, SmallCap)
              m1m2 == AppendM1M2(rspM1M2, rspA, rspB, c2)
          IN /\ rspM1M2' = m1m2
             /\ rspChan' = Append(rspChan, [code |-> "CHALLENGE_AUTH", body |-> body,
                                            sig |-> m1m2, truncated |-> FALSE])
             /\ emitted' = emitted \cup {[body |-> body, answers |-> req,
                                          slotCount |-> rspSlotCount]}
             /\ rspC' = c2

(* The responder's dispatch of one request: Busy answers ERROR(Busy);    *)
(* otherwise the request joins MessageC and SpdmGetResponseChallenge      *)
(* builds the answer.                                                     *)
SpdmProcessRequest ==
  /\ reqChan # <<>>
  /\ reqChan' = Tail(reqChan)
  /\ LET req == Head(reqChan)
         c   == AppendManagedBuffer(rspC, <<req>>, SmallCap)
     IN \/ /\ rspResponseState = "Busy"
           /\ rspChan' = Append(rspChan, ErrorMsg("Busy"))
           /\ UNCHANGED <<rspC, rspM1M2, emitted>>
        \/ /\ rspResponseState = "Normal"
           /\ SpdmGetResponseChallenge(req, c)
  /\ UNCHANGED <<reqVars, rspA, rspB, rspSlotCount, rspCertificateChain, rspCaps,
                 rspResponseState, faults, setDataCalls>>

-----------------------------------------------------------------------------
(***************************************************************************)
(* The verbs before CHALLENGE (spec 4.6), each an exchange over an idle    *)
(* link in one step: both sides append the pair to the ledger, and the     *)
(* requester checks what it received.                                      *)
(***************************************************************************)
LinkIdle == reqChan = <<>> /\ rspChan = <<>> /\ call.pc = "idle"

(* GET_VERSION, GET_CAPABILITIES, NEGOTIATE_ALGORITHMS: ledger A. *)
NegotiateConnection ==
  /\ LinkIdle
  /\ reqConnectionState = "NotStarted"
  /\ reqA' = AppendManagedBuffer(reqA, <<[code |-> "VCA"]>>, SmallCap)
  /\ rspA' = AppendManagedBuffer(rspA, <<[code |-> "VCA"]>>, SmallCap)
  /\ reqPeerCaps' = rspCaps
  /\ reqCmdReceiveState' = reqCmdReceiveState \cup
                             {"GET_CAPABILITIES", "NEGOTIATE_ALGORITHMS"}
  /\ reqConnectionState' = "AfterNegotiateAlgorithms"
  /\ UNCHANGED <<reqB, reqC, reqM1M2, reqPeerCertChain, reqCertChainProvision,
                 reqRootHashProvision, reqErrorState, call, calls, rspB, rspC,
                 rspM1M2, rspSlotCount, rspCertificateChain, rspCaps,
                 rspResponseState, netVars, setDataCalls, emitted>>

(* GET_DIGESTS / DIGESTS: ledger B; the slot 0 digest goes to            *)
(* SpdmVerifyDigest.                                                      *)
GetDigests ==
  /\ LinkIdle
  /\ calls < MaxCalls
  /\ "NEGOTIATE_ALGORITHMS" \in reqCmdReceiveState
  /\ LET digest == rspCertificateChain[0]
         pair   == <<[code |-> "GET_DIGESTS"], [code |-> "DIGESTS", digest |-> digest]>>
     IN /\ reqB' = AppendManagedBuffer(reqB, pair, LargeCap)
        /\ rspB' = AppendManagedBuffer(rspB, pair, LargeCap)
        /\ IF SpdmVerifyDigest(digest)
           THEN /\ reqCmdReceiveState' = reqCmdReceiveState \cup {"GET_DIGESTS"}
                /\ reqConnectionState' = Advance(reqConnectionState, "AfterDigests")
           ELSE UNCHANGED <<reqCmdReceiveState, reqConnectionState>>
  /\ calls' = calls + 1
  /\ UNCHANGED <<reqA, reqC, reqM1M2, reqPeerCaps, reqPeerCertChain,
                 reqCertChainProvision, reqRootHashProvision, reqErrorState, call,
                 rspA, rspC, rspM1M2, rspSlotCount, rspCertificateChain, rspCaps,
                 rspResponseState, netVars, setDataCalls, emitted>>

(* GET_CERTIFICATE(slot) / CERTIFICATE: ledger B; a slot the responder   *)
(* has no chain in is refused; SpdmVerifyCertificateChain decides        *)
(* whether the chain becomes PeerCertChainBuffer.                        *)
GetCertificate(slot) ==
  /\ LinkIdle
  /\ calls < MaxCalls
  /\ "NEGOTIATE_ALGORITHMS" \in reqCmdReceiveState
  /\ calls' = calls + 1
  /\ \/ /\ slot >= rspSlotCount
        /\ UNCHANGED <<reqB, rspB, reqPeerCertChain, reqCmdReceiveState,
                       reqConnectionState>>
     \/ /\ slot < rspSlotCount
        /\ LET chain == rspCertificateChain[slot]
               pair  == <<[code |-> "GET_CERTIFICATE", slot |-> slot],
                          [code |-> "CERTIFICATE", chain |-> chain]>>
           IN /\ reqB' = AppendManagedBuffer(reqB, pair, LargeCap)
              /\ rspB' = AppendManagedBuffer(rspB, pair, LargeCap)
              /\ IF SpdmVerifyCertificateChain(chain)
                 THEN /\ reqPeerCertChain' = chain
                      /\ reqCmdReceiveState' = reqCmdReceiveState \cup {"GET_CERTIFICATE"}
                      /\ reqConnectionState' = Advance(reqConnectionState, "AfterCertificate")
                 ELSE UNCHANGED <<reqPeerCertChain, reqCmdReceiveState, reqConnectionState>>
  /\ UNCHANGED <<reqA, reqC, reqM1M2, reqPeerCaps, reqCertChainProvision,
                 reqRootHashProvision, reqErrorState, call, rspA, rspC, rspM1M2,
                 rspSlotCount, rspCertificateChain, rspCaps, rspResponseState,
                 netVars, setDataCalls, emitted>>

-----------------------------------------------------------------------------
(***************************************************************************)
(* Hosts: SpdmSetData.  The requester's host runs on the requester's       *)
(* thread, so only between calls; the responder's host between requests.   *)
(***************************************************************************)
SetDataRequesterUnchanged ==
  /\ setDataCalls < MaxSetData
  /\ setDataCalls' = setDataCalls + 1
  /\ UNCHANGED <<reqA, reqB, reqC, reqM1M2, reqCmdReceiveState, reqConnectionState,
              reqPeerCaps, reqPeerCertChain, reqErrorState, call, calls,
              rspVars, netVars, emitted>>
SetDataResponderUnchanged ==
  /\ setDataCalls < MaxSetData
  /\ setDataCalls' = setDataCalls + 1
  /\ UNCHANGED <<reqVars, rspA, rspB, rspC, rspM1M2, netVars, emitted>>

(* SpdmDataPeerPublicCertChains (size 0 for NoChain). *)
SetPeerPublicCertChains(chain) ==
  /\ call.pc = "idle"
  /\ reqCertChainProvision' = chain
  /\ UNCHANGED reqRootHashProvision
  /\ SetDataRequesterUnchanged

(* SpdmDataPeerPublicRootCertHash. *)
SetPeerPublicRootCertHash(chain) ==
  /\ call.pc = "idle"
  /\ reqRootHashProvision' = chain
  /\ UNCHANGED reqCertChainProvision
  /\ SetDataRequesterUnchanged

(* SpdmDataSlotCount: refused above MAX_SPDM_SLOT_COUNT; the chains of    *)
(* slots at or above the new count are left in place.                    *)
SetSlotCount(n) ==
  /\ n <= MaxSlotCount
  /\ rspSlotCount' = n
  /\ UNCHANGED <<rspCertificateChain, rspCaps, rspResponseState>>
  /\ SetDataResponderUnchanged

(* SpdmDataPublicCertChains: refused for SlotNum >= SlotCount. *)
SetPublicCertChains(slot, chain) ==
  /\ slot < rspSlotCount
  /\ rspCertificateChain' = [rspCertificateChain EXCEPT ![slot] = chain]
  /\ UNCHANGED <<rspSlotCount, rspCaps, rspResponseState>>
  /\ SetDataResponderUnchanged

(* SpdmDataCapabilityFlags. *)
SetCapabilityFlags(flags) ==
  /\ rspCaps' = flags
  /\ UNCHANGED <<rspSlotCount, rspCertificateChain, rspResponseState>>
  /\ SetDataResponderUnchanged

(* SpdmDataResponseState. *)
SetResponseState(st) ==
  /\ rspResponseState' = st
  /\ UNCHANGED <<rspSlotCount, rspCertificateChain, rspCaps>>
  /\ SetDataResponderUnchanged

-----------------------------------------------------------------------------
(***************************************************************************)
(* The transport: it may lose a request or a response, deliver a response *)
(* twice, or deliver it cut short or with altered bytes; at most MaxFaults *)
(* times in a run.  A response not yet delivered when the requester's      *)
(* receive gives up stays on the link and arrives late.                    *)
(***************************************************************************)
Fault(chan) ==
  /\ faults < MaxFaults
  /\ chan # <<>>
  /\ faults' = faults + 1
  /\ UNCHANGED <<reqVars, rspVars, setDataCalls, emitted>>

LoseRequest ==
  /\ Fault(reqChan)
  /\ reqChan' = Tail(reqChan) /\ UNCHANGED rspChan
LoseResponse ==
  /\ Fault(rspChan)
  /\ rspChan' = Tail(rspChan) /\ UNCHANGED reqChan
DuplicateResponse ==
  /\ Fault(rspChan)
  /\ rspChan' = <<Head(rspChan)>> \o rspChan /\ UNCHANGED reqChan
CorruptResponse ==
  /\ Fault(rspChan)
  /\ Head(rspChan).code = "CHALLENGE_AUTH"
  /\ \E m \in {[Head(rspChan) EXCEPT !.truncated = TRUE],
               [Head(rspChan) EXCEPT !.body.meas = -1]} :
       rspChan' = <<m>> \o Tail(rspChan)
  /\ UNCHANGED reqChan

-----------------------------------------------------------------------------
(* The hosts have made all the calls the bounds allow and the requester  *)
(* is between calls: the run may stop here.                              *)
Terminating ==
  /\ calls = MaxCalls /\ setDataCalls = MaxSetData
  /\ call.pc = "idle" /\ reqChan = <<>>
  /\ UNCHANGED vars

Next ==
  \/ NegotiateConnection
  \/ GetDigests
  \/ \E slot \in Slots : GetCertificate(slot)
  \/ \E slot \in SlotNums, t \in HashTypes :
       SpdmChallenge(slot, t)
  \/ TrySpdmChallengeSend
  \/ TrySpdmChallengeReceive
  \/ SpdmProcessRequest
  \/ \E chain \in AllChains : SetPeerPublicCertChains(chain)
  \/ \E chain \in AllChains : SetPeerPublicRootCertHash(chain)
  \/ \E n \in 0..MaxSlotCount : SetSlotCount(n)
  \/ \E slot \in Slots, chain \in Chains : SetPublicCertChains(slot, chain)
  \/ \E flags \in CapChoices : SetCapabilityFlags(flags)
  \/ \E st \in {"Normal", "Busy"} : SetResponseState(st)
  \/ LoseRequest \/ LoseResponse \/ DuplicateResponse \/ CorruptResponse
  \/ Terminating

(* The requester's thread runs SpdmChallenge to its return: each step of *)
(* TrySpdmChallenge is taken, and the receive returns (with a response or *)
(* by timing out).  The responder answers a request that reached it.      *)
(* Hosts and the transport's faults get no fairness.                     *)
Fairness ==
  /\ WF_vars(TrySpdmChallengeSend)
  /\ WF_vars(TrySpdmChallengeReceive)
  /\ WF_vars(SpdmProcessRequest)

Spec == Init /\ [][Next]_vars /\ Fairness

-----------------------------------------------------------------------------
TypeOK ==
  /\ \A buf \in {reqA, reqC, rspA, rspC} : Len(buf) <= SmallCap
  /\ \A buf \in {reqB, reqM1M2, rspB, rspM1M2} : Len(buf) <= LargeCap
  /\ reqCmdReceiveState \subseteq {"GET_CAPABILITIES", "NEGOTIATE_ALGORITHMS",
                                   "GET_DIGESTS", "GET_CERTIFICATE", "CHALLENGE"}
  /\ \E i \in 1..Len(ConnStates) : ConnStates[i] = reqConnectionState
  /\ reqPeerCaps \in CapChoices \cup {{}}
  /\ {reqPeerCertChain, reqCertChainProvision, reqRootHashProvision} \subseteq AllChains
  /\ reqErrorState \in {"SUCCESS", "NO_CAPABILITIES", "CERTIFICATE_FAILURE"}
  /\ call.pc \in {"idle", "try", "wait"}
  /\ call.status \in Statuses
  /\ call.retry \in 0..RetryTimes
  /\ calls \in 0..MaxCalls
  /\ rspSlotCount \in 0..MaxSlotCount
  /\ rspCertificateChain \in [Slots -> AllChains]
  /\ rspResponseState \in {"Normal", "Busy"}
  /\ faults \in 0..MaxFaults
  /\ setDataCalls \in 0..MaxSetData
  /\ \A m \in {reqChan[i] : i \in DOMAIN reqChan} : m.code = "CHALLENGE"
  /\ \A m \in {rspChan[i] : i \in DOMAIN rspChan} : m.code \in {"ERROR", "CHALLENGE_AUTH"}

(* Authentication.  SpdmChallenge returns SUCCESS only for the            *)
(* CHALLENGE_AUTH the responder produced in answer to that call's own     *)
(* CHALLENGE, unaltered: never for a late answer to an earlier call, a     *)
(* duplicate, or a response altered on the link.  TrySpdmChallenge relies *)
(* on MessageC holding its request and the received body, and on the      *)
(* signature over M1M2, to tell them apart.                               *)
ChallengeAuthAnswersThisCall ==
  call.pc = "idle" /\ call.status = "SUCCESS" =>
    \E e \in emitted : e.answers = call.req /\ e.body = call.got.body

(* SpdmChallenge returns: the loop of TrySpdmChallenge stops after        *)
(* RetryTimes + 1 tries even if the responder's host keeps it Busy.       *)
SpdmChallengeReturns ==
  call.pc # "idle" ~> call.pc = "idle"

(* The spec (3, 8.2): M1M2 is reset after a challenge completes, and an   *)
(* honest CHALLENGE_AUTH verifies.  On a link without faults, after only  *)
(* successful challenges, the genuine answer to a CHALLENGE, naming the   *)
(* chain the requester holds, is never refused by the signature check.    *)
HonestChallengeAuthVerifies ==
  (/\ call.pc = "idle" /\ call.status = "SECURITY_VIOLATION"
   /\ call.syncedAtStart /\ faults = 0
   /\ call.got.code = "CHALLENGE_AUTH"
   /\ call.chain # NoChain /\ call.got.body.chainHash = call.chain)
   => ~\E e \in emitted : e.answers = call.req /\ e.body = call.got.body

(* The responder answers a CHALLENGE only for a slot that holds a chain:  *)
(* SpdmSetData accepts chains only for SlotNum < SlotCount, and the spec  *)
(* addresses chains by slot index.                                        *)
ResponderAnswersProvisionedSlotsOnly ==
  \A e \in emitted : e.body.param1 < e.slotCount

-----------------------------------------------------------------------------
(***************************************************************************)
(* Refinement of SpdmAuthAbstract.  The call's outstanding request is the  *)
(* one TrySpdmChallenge last sent (call.req, NoMsg before the first send); *)
(* the responder's answers are the history emitted; the verdict is what    *)
(* the last SpdmChallenge returned; Authenticated is the ConnectionState.  *)
(* Every other step (retries, the link, the hosts, the earlier verbs) is a *)
(* stuttering step of the abstract specification.                          *)
(***************************************************************************)
ChallengeRequests ==
  [code : {"CHALLENGE"}, slot : 0..255, hashType : 0..255, nonce : Nat \X Nat]
ChallengeAuthBodies ==
  [code : {"CHALLENGE_AUTH"}, param1 : 0..255, param2 : 0..255,
   chainHash : AllChains, nonce : Nat, meas : Int]
AnswerChain(body) == body.chainHash

CallVerdict ==
  CASE call.pc # "idle"        -> [status |-> "busy"]
    [] call.status = "NONE"    -> [status |-> "none"]
    [] call.status = "SUCCESS" -> [status |-> "authenticated", req |-> call.req,
                                   body |-> call.got.body, chain |-> call.chain]
    [] OTHER                   -> [status |-> "failed"]

Auth == INSTANCE SpdmAuthAbstract WITH
          Requests <- ChallengeRequests, Bodies <- ChallengeAuthBodies,
          None <- NoMsg, NamedChain <- AnswerChain,
          verdict <- CallVerdict,
          pending <- IF call.pc = "idle" THEN NoMsg ELSE call.req,
          answers <- {[req |-> e.answers, body |-> e.body] : e \in emitted},
          authenticated <- reqConnectionState = "Authenticated"

=============================================================================
