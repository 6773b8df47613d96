------------------------- MODULE SpdmSessionRegistry -------------------------
(***************************************************************************)
(* The session table of one SPDM endpoint context                          *)
(* (SpdmCommonLibContextData.c): MAX_SPDM_SESSION_COUNT slots, the two     *)
(* half-id allocators, assign, free and lookup, and LatestSessionId.       *)
(*                                                                         *)
(* A 32-bit session id is kept as the pair <<ReqHalf, RspHalf>> of its     *)
(* upper and lower 16 bits (the masks 0xFFFF0000 and 0xFFFF of the code    *)
(* select one component); INVALID_SESSION_ID is <<0, 0>>.  A context       *)
(* establishes sessions in one role: as a requester it allocates the upper *)
(* half and the peer's KEY_EXCHANGE_RSP/PSK_EXCHANGE_RSP supplies the      *)
(* lower one; as a responder it allocates the lower half and the peer's    *)
(* request supplies the upper one.  Peer halves come from PeerHalves.      *)
(***************************************************************************)
EXTENDS Integers, FiniteSets, FiniteSetsExt

CONSTANTS
    MaxSessions,      \* MAX_SPDM_SESSION_COUNT
    PeerHalves,       \* half ids a peer may choose (0 included: it is unchecked)
    CapFlagChoices    \* negotiated ENCRYPT_CAP/MAC_CAP combinations

ASSUME MaxSessions \in Nat \ {0}
ASSUME PeerHalves \subseteq 0..65535
ASSUME CapFlagChoices \subseteq SUBSET {"ENCRYPT_CAP", "MAC_CAP"}

VARIABLES
    sessionInfo,      \* SpdmContext->SessionInfo[]: slot index -> record
    latestSessionId,  \* SpdmContext->LatestSessionId
    capFlags,         \* ConnectionInfo.Capability.Flags (fixed once negotiated)
    role,             \* which library drives this context's sessions
    result,           \* slot index returned by the last call, or NULL
    allocated         \* half id the last establishment allocated, or NoHalf

regVars == <<sessionInfo, latestSessionId, capFlags, role, result, allocated>>

Index == 0..MaxSessions-1
INVALID_SESSION_ID == <<0, 0>>
NULL == -1
NoHalf == -1
Roles == {"Requester", "Responder"}
HalfValues == {65535 - i : i \in Index} \cup PeerHalves \cup {0}
SessionIds == HalfValues \X HalfValues

\* The half of an id this context allocated itself.
OwnHalf(sid) == IF role = "Requester" THEN sid[1] ELSE sid[2]

\* Session type chosen from the negotiated ENCRYPT_CAP and MAC_CAP flags;
\* ENCRYPT_CAP without MAC_CAP hits ASSERT(FALSE) and yields SessionTypeMax.
SessionTypeOf(flags) ==
    CASE flags = {}                         -> "None"
      [] flags = {"ENCRYPT_CAP", "MAC_CAP"} -> "EncMac"
      [] flags = {"MAC_CAP"}                -> "MacOnly"
      [] OTHER                              -> "Max"

SpdmSessionInfoInit(id, usePsk) ==
    [SessionId |-> id, UsePsk |-> usePsk, SessionType |-> SessionTypeOf(capFlags)]

SlotsHolding(id) == {i \in Index : sessionInfo[i].SessionId = id}

FreeSlots == SlotsHolding(INVALID_SESSION_ID)

LiveIds == {sessionInfo[i].SessionId : i \in Index} \ {INVALID_SESSION_ID}

-----------------------------------------------------------------------------
(* Allocators: the half 0xFFFF - Index of the first slot whose own half is *)
(* zero, or 0 when there is none.                                          *)

AllocateReqSessionIdWrongMask ==
    LET free == {i \in Index : sessionInfo[i].SessionId[2] = 0}
    IN  IF free = {} THEN 0 ELSE 65535 - Min(free)

SpdmAllocateReqSessionId ==
    LET free == {i \in Index : sessionInfo[i].SessionId[1] = 0}
    IN  IF free = {} THEN 0 ELSE 65535 - Min(free)

AllocateRspSessionIdOffByOne ==
    LET free == {i \in Index : sessionInfo[i].SessionId[2] = 0}
    IN  IF free = {} THEN 0 ELSE 65534 - Min(free)

SpdmAllocateRspSessionId ==
    LET free == {i \in Index : sessionInfo[i].SessionId[2] = 0}
    IN  IF free = {} THEN 0 ELSE 65535 - Min(free)

-----------------------------------------------------------------------------
(* Table operations.  Each one sets result to what the function returns.   *)

AssignSessionIdLastFree(id, usePsk) ==
    \/ /\ id = INVALID_SESSION_ID \/ SlotsHolding(id) # {} \/ FreeSlots = {}
       /\ result' = NULL
       /\ UNCHANGED <<sessionInfo, latestSessionId>>
    \/ /\ id # INVALID_SESSION_ID
       /\ SlotsHolding(id) = {}
       /\ FreeSlots # {}
       /\ LET i == Max(FreeSlots)
          IN  /\ sessionInfo' = [sessionInfo EXCEPT ![i] = SpdmSessionInfoInit(id, usePsk)]
              /\ result' = i
       /\ latestSessionId' = id

SpdmAssignSessionId(id, usePsk) ==
    \/ /\ id = INVALID_SESSION_ID \/ SlotsHolding(id) # {} \/ FreeSlots = {}
       /\ result' = NULL
       /\ UNCHANGED <<sessionInfo, latestSessionId>>
    \/ /\ id # INVALID_SESSION_ID
       /\ SlotsHolding(id) = {}
       /\ FreeSlots # {}
       /\ LET i == Min(FreeSlots)
          IN  /\ sessionInfo' = [sessionInfo EXCEPT ![i] = SpdmSessionInfoInit(id, usePsk)]
              /\ result' = i
       /\ latestSessionId' = id

FreeSessionIdByOwnHalf(id) ==
    LET match == {i \in Index : OwnHalf(sessionInfo[i].SessionId) = OwnHalf(id)}
    IN  \/ /\ id = INVALID_SESSION_ID \/ match = {}
           /\ result' = NULL
           /\ UNCHANGED sessionInfo
        \/ /\ id # INVALID_SESSION_ID
           /\ match # {}
           /\ sessionInfo' = [sessionInfo EXCEPT ![Min(match)] =
                                  SpdmSessionInfoInit(INVALID_SESSION_ID, FALSE)]
           /\ result' = Min(match)

\* Frees the slot but leaves LatestSessionId naming the freed id.
SpdmFreeSessionId(id) ==
    \/ /\ id = INVALID_SESSION_ID \/ SlotsHolding(id) = {}
       /\ result' = NULL
       /\ UNCHANGED sessionInfo
    \/ /\ id # INVALID_SESSION_ID
       /\ SlotsHolding(id) # {}
       /\ sessionInfo' = [sessionInfo EXCEPT ![Min(SlotsHolding(id))] =
                              SpdmSessionInfoInit(INVALID_SESSION_ID, FALSE)]
       /\ result' = Min(SlotsHolding(id))

SpdmGetSessionInfoViaSessionId(id) ==
    /\ result' = IF id = INVALID_SESSION_ID \/ SlotsHolding(id) = {}
                 THEN NULL ELSE Min(SlotsHolding(id))
    /\ UNCHANGED sessionInfo

-----------------------------------------------------------------------------
(* Callers.  KEY_EXCHANGE / PSK_EXCHANGE allocate this side's half, build  *)
(* the id with the peer's half and assign it; END_SESSION frees an id; any *)
(* secured message looks its id up.                                        *)

EstablishSession(peerHalf, usePsk) ==
    LET half == IF role = "Requester" THEN SpdmAllocateReqSessionId
                                      ELSE SpdmAllocateRspSessionId
        id   == IF role = "Requester" THEN <<half, peerHalf>>
                                      ELSE <<peerHalf, half>>
    IN  /\ allocated' = half
        /\ SpdmAssignSessionId(id, usePsk)
        /\ UNCHANGED <<capFlags, role>>

EndSession(id) ==
    /\ SpdmFreeSessionId(id)
    /\ allocated' = NoHalf
    /\ UNCHANGED <<latestSessionId, capFlags, role>>

LookupSession(id) ==
    /\ SpdmGetSessionInfoViaSessionId(id)
    /\ allocated' = NoHalf
    /\ UNCHANGED <<latestSessionId, capFlags, role>>

RegInit ==
    /\ sessionInfo = [i \in Index |->
                        [SessionId |-> INVALID_SESSION_ID, UsePsk |-> FALSE,
                         SessionType |-> "None"]]
    /\ latestSessionId = INVALID_SESSION_ID
    /\ capFlags \in CapFlagChoices
    /\ role \in Roles
    /\ result = NULL
    /\ allocated = NoHalf

RegNext ==
    \/ \E p \in PeerHalves, psk \in BOOLEAN : EstablishSession(p, psk)
    \/ \E id \in SessionIds : EndSession(id)
    \/ \E id \in SessionIds : LookupSession(id)

RegSpec == RegInit /\ [][RegNext]_regVars

-----------------------------------------------------------------------------
(* Properties                                                              *)

RegTypeOK ==
    /\ sessionInfo \in [Index -> [SessionId : SessionIds, UsePsk : BOOLEAN,
                                  SessionType : {"None", "MacOnly", "EncMac", "Max"}]]
    /\ latestSessionId \in SessionIds
    /\ role \in Roles
    /\ result \in Index \cup {NULL}
    /\ allocated \in HalfValues \cup {NoHalf}

\* The half ids this context allocated for its live sessions are non-zero
\* and pairwise distinct, so its half alone tells its sessions apart.  It
\* rests on the allocator scanning the same half it allocates and on
\* SpdmAssignSessionId filling the first free slot, the slot the allocator
\* indexed.
OwnHalvesDistinct ==
    \A i, j \in Index :
        LET a == sessionInfo[i].SessionId
            b == sessionInfo[j].SessionId
        IN  /\ a # INVALID_SESSION_ID => OwnHalf(a) # 0
            /\ (i # j /\ a # INVALID_SESSION_ID /\ b # INVALID_SESSION_ID)
                   => OwnHalf(a) # OwnHalf(b)

\* When SpdmAllocateReq/RspSessionId hands the caller a non-zero half, the
\* SpdmAssignSessionId that follows with whatever half the peer chose
\* succeeds: the allocation is a promise that the table has room and that
\* the id cannot be a duplicate.
EstablishSucceedsWhenAllocated ==
    allocated \notin {0, NoHalf} => result # NULL

\* The slot table, seen as the set of ids it holds, behaves as the abstract
\* registry: assign, free and lookup succeed exactly when SpdmSessionSet
\* says they do.
Abs == INSTANCE SpdmSessionSet
         WITH live <- LiveIds,
              outcome <- IF result = NULL THEN "null" ELSE "ok",
              Ids <- SessionIds,
              InvalidId <- INVALID_SESSION_ID

RegistryRefinesSessionSet == Abs!AbsSpec

\* spec.md section 8: "the sentinel 0 is never returned by an allocator".
\* SpdmAllocateReq/RspSessionId return 0 when every slot is taken.
AllocatorNeverReturnsSentinel == allocated # 0

\* spec.md section 8: allocated session ids lie in [1, 2^32-2].  The first
\* slot's half is 0xFFFF, so two endpoints that both start from an empty
\* table agree on the id 0xFFFFFFFF.
SessionIdsInRange ==
    \A id \in LiveIds : id # <<65535, 65535>>
=============================================================================
