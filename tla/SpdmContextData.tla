--------------------------- MODULE SpdmContextData ---------------------------
(***************************************************************************)
(* The host API of an SPDM context (SpdmCommonLibContextData.c lines       *)
(* 266-787): SpdmSetData and SpdmGetData with every case of their switch,  *)
(* SpdmInitEncapEnv, the two registration functions and SpdmInitContext.  *)
(* Scalars the host sets are values of Values; pointers the host hands     *)
(* over are host buffers (Buffers) or NULL, kept with their DataSize.     *)
(* ConnectionInfo is written by the protocol engine, outside this file;    *)
(* the engine's step is modelled from spec.md 4.4.                         *)
(***************************************************************************)
EXTENDS Integers, FiniteSets, TLC

CONSTANTS
  Values,                    \* scalar values a host writes (UINT8..UINT32)
  Buffers,                   \* host buffers handed over by pointer
  NULL,
  IoFuncs,                   \* host send/receive/encode/decode functions
  MAX_SPDM_SLOT_COUNT,
  MAX_SPDM_PSK_HINT_LENGTH,
  DataSizes,                 \* DataSize arguments a host passes
  MaxCalls                   \* bound: API calls and engine updates

(* SPDM_DATA_TYPE.  Debug is any tag >= 0x80000000; Unknown any other tag *)
(* the switch has no case for.                                            *)
ScalarWidth ==
  [CapabilityFlags |-> 4, CapabilityCTExponent |-> 1, MeasurementHashAlgo |-> 4,
   BaseAsymAlgo |-> 4, BaseHashAlgo |-> 4, DHENamedGroup |-> 2,
   AEADCipherSuite |-> 2, ReqBaseAsymAlg |-> 2, KeySchedule |-> 2]
LocalScalars == DOMAIN ScalarWidth
GetWidth == ScalarWidth @@ [ConnectionState |-> 4, ResponseState |-> 4]
SetOnly == {"PeerPublicRootCertHash", "PeerPublicCertChains", "SlotCount",
            "PublicCertChains", "BasicMutAuthRequested", "MutAuthRequested", "PskHint"}
DataTypes == LocalScalars \cup SetOnly \cup {"ConnectionState", "ResponseState",
                                             "Debug", "Unknown"}
Locations == {"Local", "Connection", "Session"}

(* SPDM_KEY_EXCHANGE_RESPONSE_MUT_AUTH_REQUESTED(_WITH_ENCAP_REQUEST, *)
(* _WITH_GET_DIGESTS): BIT0, BIT1, BIT2.                                *)
MUT_AUTH_REQUESTED == 1
WITH_ENCAP_REQUEST == 2
WITH_GET_DIGESTS == 4
MutAuthInputs == {0, MUT_AUTH_REQUESTED, MUT_AUTH_REQUESTED + WITH_ENCAP_REQUEST,
                  MUT_AUTH_REQUESTED + WITH_GET_DIGESTS}
SlotIndex == 0 .. MAX_SPDM_SLOT_COUNT - 1
Pointers == Buffers \cup {NULL}
NoProvision == [ptr |-> NULL, size |-> 0]
Provisions == [ptr : Pointers, size : DataSizes \cup {0}]

(* SPDM_CONNECTION_INFO: the fields a host may read back. *)
ConnectionFields == LocalScalars \cup {"ConnectionState"}

(* SPDM_ENCAP_CONTEXT, as SpdmInitEncapEnv leaves it. *)
EncapEnv(slot, hashType) ==
  [ErrorState |-> 0, EncapState |-> 0, RequestId |-> 0, SlotNum |-> slot,
   MeasurementHashType |-> hashType]

(* The I/O and transport function pointers of SPDM_DEVICE_CONTEXT. *)
IoFuncNames == {"send", "receive", "encode", "decode"}

VARIABLES
  ctx,            \* the SPDM_DEVICE_CONTEXT fields the host API writes
  connection,     \* ConnectionInfo.Capability, .Algorithm, .ConnectionState
  calls,          \* API calls and engine steps so far
  result          \* what the last call or step returned

vars == <<ctx, connection, calls, result>>

(***************************************************************************)
(* ctx.local: LocalContext.Capability and .Algorithm; certificateChain:   *)
(* CertificateChain[] with CertificateChainSize[]; peerRootHash,           *)
(* peerChain, pskHint: PeerRootCertHashProvision, PeerCertChainProvision,  *)
(* PskHint with their sizes; encap: EncapContext; io: the registered       *)
(* SendMessage, ReceiveMessage, TransportEncode/DecodeMessage.             *)
(***************************************************************************)
ZeroContext ==
  [local |-> [f \in LocalScalars |-> 0], slotCount |-> 0,
   certificateChain |-> [s \in SlotIndex |-> NoProvision],
   peerRootHash |-> NoProvision, peerChain |-> NoProvision, pskHint |-> NoProvision,
   basicMutAuthRequested |-> 0, mutAuthRequested |-> 0, responseState |-> 0,
   encap |-> EncapEnv(0, 0), io |-> [f \in IoFuncNames |-> NULL]]

IsDebugOnlyData(t) == t = "Debug"

(* The one definition in the source returns FALSE for every type. *)
NeedSessionInfoForData(t) == FALSE

Call(r) == /\ calls < MaxCalls /\ calls' = calls + 1 /\ result' = r
SetResult(st) == [op |-> "set", status |-> st]
GetResult(t, st, size, value) ==
  [op |-> "get", type |-> t, status |-> st, size |-> size, value |-> value]

Init ==
  /\ ctx = ZeroContext
  /\ connection = [f \in ConnectionFields |-> 0]
  /\ calls = 0
  /\ result = [op |-> "none"]

(* SpdmInitContext: ZeroMem of the whole context, ConnectionInfo         *)
(* included; ResponseState Normal (0).                                    *)
SpdmInitContext ==
  /\ Call([op |-> "init"])
  /\ ctx' = ZeroContext
  /\ connection' = [f \in DOMAIN connection |-> 0]

(* SpdmInitEncapEnv. *)
SpdmInitEncapEnv(c, slot, hashType) ==
  [c EXCEPT !.encap = EncapEnv(slot, hashType)]

Invalid == [status |-> "INVALID_PARAMETER", ctx |-> ctx]
Unsupported == [status |-> "UNSUPPORTED", ctx |-> ctx]
Ok(c) == [status |-> "SUCCESS", ctx |-> c]

(* Mutant: SpdmInitEncapEnv moved before the test of MutAuthRequested. *)
SetMutAuthRequestedEnvFirst(d, n, slot, hash) ==
  CASE n # 1 -> Invalid
    [] d \notin MutAuthInputs \ {MUT_AUTH_REQUESTED} ->
         [status |-> "INVALID_PARAMETER", ctx |-> SpdmInitEncapEnv(ctx, slot, hash)]
    [] OTHER -> Ok(SpdmInitEncapEnv([ctx EXCEPT !.mutAuthRequested = d], slot, hash))

(* case SpdmDataMutAuthRequested: 0, or MUT_AUTH_REQUESTED with exactly *)
(* one of the two ways of requesting the peer's chain.                 *)
SetMutAuthRequested(d, n, slot, hash) ==
  IF n # 1 \/ d \notin MutAuthInputs \ {MUT_AUTH_REQUESTED}
  THEN Invalid
  ELSE Ok(SpdmInitEncapEnv([ctx EXCEPT !.mutAuthRequested = d], slot, hash))

(* Mutant: the SlotCount case without its MAX_SPDM_SLOT_COUNT test. *)
SetSlotCountUnchecked(d, n) ==
  IF n # 1 THEN Invalid ELSE Ok([ctx EXCEPT !.slotCount = d])

SetSlotCount(d, n) ==
  IF n # 1 \/ d > MAX_SPDM_SLOT_COUNT THEN Invalid ELSE Ok([ctx EXCEPT !.slotCount = d])

(* The switch of SpdmSetData, after the debug-only and session tests:   *)
(* the status it returns and the context it leaves.  d is *Data (or     *)
(* Data for the pointer cases), n DataSize, slot and hash               *)
(* Parameter->AdditionalData[0] and [1].                                *)
SetDataOutcome(t, d, n, slot, hash) ==
  CASE t \in LocalScalars ->
         IF n # ScalarWidth[t] THEN Invalid ELSE Ok([ctx EXCEPT !.local[t] = d])
    [] t = "ResponseState" ->
         IF n # 4 THEN Invalid ELSE Ok([ctx EXCEPT !.responseState = d])
    [] t = "PeerPublicRootCertHash" -> Ok([ctx EXCEPT !.peerRootHash = [ptr |-> d, size |-> n]])
    [] t = "PeerPublicCertChains" -> Ok([ctx EXCEPT !.peerChain = [ptr |-> d, size |-> n]])
    [] t = "SlotCount" -> SetSlotCount(d, n)
    [] t = "PublicCertChains" ->
         IF slot >= ctx.slotCount THEN Invalid
         ELSE Ok([ctx EXCEPT !.certificateChain[slot] = [ptr |-> d, size |-> n]])
    [] t = "BasicMutAuthRequested" ->
         IF n # 1 THEN Invalid ELSE Ok([ctx EXCEPT !.basicMutAuthRequested = d])
    [] t = "MutAuthRequested" -> SetMutAuthRequested(d, n, slot, hash)
    [] t = "PskHint" ->
         IF n > MAX_SPDM_PSK_HINT_LENGTH THEN Invalid
         ELSE Ok([ctx EXCEPT !.pskHint = [ptr |-> d, size |-> n]])
    [] OTHER -> Unsupported

SpdmSetData(t, d, n, slot, hash) ==
  LET o == IF IsDebugOnlyData(t) \/ NeedSessionInfoForData(t)
           THEN Unsupported
           ELSE SetDataOutcome(t, d, n, slot, hash)
  IN  /\ Call(SetResult(o.status))
      /\ ctx' = o.ctx
      /\ UNCHANGED connection

(* TargetData of SpdmGetData: ConnectionInfo, except ResponseState. *)
GetTarget(t) ==
  IF t = "ResponseState" THEN ctx.responseState ELSE connection[t]

(* SpdmGetData(DataType, Parameter->Location, *DataSize). *)
SpdmGetData(t, loc, bufSize) ==
  /\ Call(CASE IsDebugOnlyData(t) \/ t \notin DOMAIN GetWidth ->
               GetResult(t, "UNSUPPORTED", bufSize, NULL)
             [] t # "ResponseState" /\ loc # "Connection" ->
               GetResult(t, "INVALID_PARAMETER", bufSize, NULL)
             [] bufSize < GetWidth[t] ->
               GetResult(t, "BUFFER_TOO_SMALL", GetWidth[t], NULL)
             [] OTHER ->
               GetResult(t, "SUCCESS", GetWidth[t], GetTarget(t)))
  /\ UNCHANGED <<ctx, connection>>

SpdmRegisterDeviceIoFunc(send, receive) ==
  /\ Call([op |-> "register"])
  /\ ctx' = [ctx EXCEPT !.io.send = send, !.io.receive = receive]
  /\ UNCHANGED connection

SpdmRegisterTransportLayerFunc(encode, decode) ==
  /\ Call([op |-> "register"])
  /\ ctx' = [ctx EXCEPT !.io.encode = encode, !.io.decode = decode]
  /\ UNCHANGED connection

(* The protocol engine records one negotiated field in ConnectionInfo     *)
(* (spec.md 4.4: "the connection.algorithm entries are populated by the   *)
(* protocol engine"); the VCA handlers are not in the repository.         *)
ProtocolEngineNegotiates ==
  /\ Call([op |-> "engine"])
  /\ \E f \in DOMAIN connection, v \in Values : connection' = [connection EXCEPT ![f] = v]
  /\ UNCHANGED ctx

(* What a host passes as *Data: a UINT8 slot count, a MutAuthRequested   *)
(* byte, a pointer, or a scalar.                                         *)
SetInputs(t) ==
  CASE t = "SlotCount" -> 0 .. MAX_SPDM_SLOT_COUNT + 1
    [] t = "MutAuthRequested" -> MutAuthInputs
    [] t \in {"PeerPublicRootCertHash", "PeerPublicCertChains", "PublicCertChains",
              "PskHint"} -> Pointers
    [] OTHER -> Values

(* Parameter->AdditionalData, read only by the two cases that use it. *)
SlotParams(t) ==
  IF t \in {"PublicCertChains", "MutAuthRequested"} THEN 0 .. MAX_SPDM_SLOT_COUNT ELSE {0}
HashParams(t) == IF t = "MutAuthRequested" THEN Values ELSE {0}

(* Every call has been made: the host stops. *)
Done == calls = MaxCalls /\ UNCHANGED vars

Next ==
  \/ SpdmInitContext
  \/ \E t \in DataTypes, n \in DataSizes :
       \E d \in SetInputs(t), slot \in SlotParams(t), hash \in HashParams(t) :
         SpdmSetData(t, d, n, slot, hash)
  \/ \E t \in DataTypes, loc \in Locations, n \in DataSizes : SpdmGetData(t, loc, n)
  \/ \E f, g \in IoFuncs : SpdmRegisterDeviceIoFunc(f, g)
  \/ \E f, g \in IoFuncs : SpdmRegisterTransportLayerFunc(f, g)
  \/ ProtocolEngineNegotiates
  \/ Done

Spec == Init /\ [][Next]_vars

-----------------------------------------------------------------------------
(* Every field holds what its C type and the setters allow; SlotCount in *)
(* particular never exceeds MAX_SPDM_SLOT_COUNT, the size of the         *)
(* CertificateChain array the responder indexes with it.                 *)
CtxTypeOK ==
  /\ ctx.local \in [LocalScalars -> Values \cup {0}]
  /\ ctx.slotCount \in 0 .. MAX_SPDM_SLOT_COUNT
  /\ ctx.certificateChain \in [SlotIndex -> Provisions]
  /\ {ctx.peerRootHash, ctx.peerChain, ctx.pskHint} \subseteq Provisions
  /\ ctx.pskHint.size <= MAX_SPDM_PSK_HINT_LENGTH
  /\ ctx.mutAuthRequested \in MutAuthInputs \ {MUT_AUTH_REQUESTED}
  /\ ctx.encap.SlotNum \in 0 .. MAX_SPDM_SLOT_COUNT
  /\ ctx.io \in [IoFuncNames -> IoFuncs \cup {NULL}]
  /\ connection \in [ConnectionFields -> Values \cup {0}]
  /\ calls \in 0 .. MaxCalls

(* SpdmSetData either succeeds or leaves the context as it was: every    *)
(* early return (debug-only type, DataSize, SlotCount range, slot beyond  *)
(* SlotCount, MutAuthRequested value, PSK hint length, unknown type)      *)
(* comes before the case writes anything, SpdmInitEncapEnv included.     *)
SetDataErrorChangesNothing ==
  [][calls' # calls /\ result'.op = "set" /\ result'.status # "SUCCESS"
       => UNCHANGED ctx]_vars
====
