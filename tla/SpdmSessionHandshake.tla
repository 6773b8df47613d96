------------------------- MODULE SpdmSessionHandshake -------------------------
(***************************************************************************)
(* Establishment of one secured session between a requester context and a *)
(* responder context: KEY_EXCHANGE + FINISH (optionally with mutual         *)
(* authentication) or PSK_EXCHANGE + PSK_FINISH.                            *)
(*                                                                         *)
(* From the repository sources: the transcript hashes and every signature  *)
(* and HMAC function of SpdmCommonLibCryptoService.c (SpdmCalculateTHCurrAK *)
(* and ...AKF and the KEY_EXCHANGE_RSP, FINISH, FINISH_RSP, PSK_EXCHANGE_RSP*)
(* and PSK_FINISH generators and verifiers), and the requester's           *)
(* SpdmSendReceivePskFinish.  The handlers that call them (KEY_EXCHANGE,    *)
(* FINISH, PSK_EXCHANGE on both sides, PSK_FINISH on the responder) are not *)
(* in the sources and follow the SPDM 1.1 message order.                    *)
(*                                                                         *)
(* A transcript is a sequence of entries, one per message part; a hash is  *)
(* the sequence it covers, a signature [key |-> signing chain, th |-> TH]  *)
(* and an HMAC [key |-> finished key name, th |-> TH].  The finished keys   *)
(* are the same on both sides (the DHE or PSK secret is not attacked); the  *)
(* network may lose messages or alter their unsigned fields.               *)
(***************************************************************************)
EXTENDS Integers, Sequences, FiniteSets, Functions

CONSTANTS
    Chains,           \* certificate chains (model values)
    NoChain,          \* no chain: size 0 / NULL buffer
    MaxSlots,         \* slots offered by the responder
    TranscriptCap,    \* MAX_SPDM_MESSAGE_BUFFER_SIZE, in transcript entries
    MaxFaults,        \* lost or altered messages per behaviour
    MaxPskFinishCalls \* SpdmSendReceivePskFinish calls per session

ASSUME NoChain \notin Chains
ASSUME MaxSlots \in Nat \ {0}
ASSUME TranscriptCap \in Nat \ {0}
ASSUME MaxFaults \in Nat /\ MaxPskFinishCalls \in Nat \ {0}

VARIABLES
    rqCtx,    \* requester context: its views of the chains, PSK_CAP
    rsCtx,    \* responder context: chains per slot, view of the requester's
    rq,       \* requester session and caller state
    rs,       \* responder session state
    reqChan,  \* requests in flight
    rspChan,  \* responses in flight
    faults,   \* faults injected so far
    ghost     \* transcripts the responder derived its keys over

hsVars == <<rqCtx, rsCtx, rq, rs, reqChan, rspChan, faults, ghost>>

Slots == 0..MaxSlots-1
AllChains == Chains \cup {NoChain}
NoVal == [key |-> "none", th |-> <<>>]
Entry(code, f, v) == [code |-> code, f |-> f, v |-> v]
\* Transcript.MessageA: the VCA exchange, the same on both sides.
MessageA == <<Entry("VCA", "ok", NoVal)>>

-----------------------------------------------------------------------------
(* Managed buffers and transcript hashes                                   *)

\* AppendManagedBuffer: all or nothing, fails past the capacity.
AppendManagedBuffer(buf, data) ==
    IF Len(buf) + Len(data) > TranscriptCap THEN buf ELSE buf \o data

\* A THCurr under construction: each step returns FALSE on the first
\* failed append.
THAppend(t, data) ==
    IF t.ok /\ Len(t.buf) + Len(data) <= TranscriptCap
    THEN [ok |-> TRUE, buf |-> t.buf \o data]
    ELSE [ok |-> FALSE, buf |-> t.buf]

\* SpdmHashAll of a chain, appended when the chain pointer is not NULL.
CertHash(chain) ==
    IF chain = NoChain THEN <<>> ELSE <<Entry("CertHash", "ok", [key |-> chain, th |-> <<>>])>>

THCurrAKWithoutK(s, cert) ==
    THAppend(THAppend([ok |-> TRUE, buf |-> <<>>], MessageA), CertHash(cert))

SpdmCalculateTHCurrAK(s, cert) ==
    THAppend(THAppend(THAppend([ok |-> TRUE, buf |-> <<>>], MessageA), CertHash(cert)), s.K)

SpdmCalculateTHCurrAKF(s, cert, mutCert) ==
    THAppend(THAppend(SpdmCalculateTHCurrAK(s, cert), CertHash(mutCert)), s.F)

Sign(chain, th) == [key |-> chain, th |-> th]
Hmac(keyName, th) == [key |-> keyName, th |-> th]
Fail == [ok |-> FALSE, val |-> NoVal]
Ok(v) == [ok |-> TRUE, val |-> v]

\* The chain a context holds for its peer: PeerCertChainBuffer when
\* non-empty, else PeerCertChainProvision, else none (the callers return
\* FALSE).
PeerCertChain(c) ==
    IF c.PeerCertChainBuffer # NoChain THEN c.PeerCertChainBuffer
                                       ELSE c.PeerCertChainProvision

-----------------------------------------------------------------------------
(* KEY_EXCHANGE_RSP: signature and HMAC over TH = A || H(Ct) || K          *)

SpdmGenerateKeyExchangeRspSignature(c, s) ==
    LET t == SpdmCalculateTHCurrAK(s, c.LocalUsedCertChainBuffer)
    IN  IF c.LocalUsedCertChainBuffer = NoChain \/ ~t.ok THEN Fail
        ELSE Ok(Sign(c.LocalUsedCertChainBuffer, t.buf))

SpdmGenerateKeyExchangeRspHmac(c, s) ==
    LET t == SpdmCalculateTHCurrAK(s, c.LocalUsedCertChainBuffer)
    IN  IF c.LocalUsedCertChainBuffer = NoChain \/ ~t.ok THEN Fail
        ELSE Ok(Hmac("ResponseFinishedKey", t.buf))

SpdmVerifyKeyExchangeRspSignature(c, s, sig) ==
    LET cert == PeerCertChain(c)
        t    == SpdmCalculateTHCurrAK(s, cert)
    IN  cert # NoChain /\ t.ok /\ sig = Sign(cert, t.buf)

SpdmVerifyKeyExchangeRspHmac(c, s, hmac) ==
    LET cert == PeerCertChain(c)
        t    == SpdmCalculateTHCurrAK(s, cert)
    IN  cert # NoChain /\ t.ok /\ hmac = Hmac("ResponseFinishedKey", t.buf)

-----------------------------------------------------------------------------
(* FINISH and FINISH_RSP: TH = A || H(Ct) || K || H(CM) || F, where CM,    *)
(* the requester's chain, is included when MutAuthRequested.              *)

SpdmGenerateFinishReqSignature(c, s) ==
    LET cert == PeerCertChain(c)
        t    == SpdmCalculateTHCurrAKF(s, cert, c.LocalUsedCertChainBuffer)
    IN  IF c.LocalUsedCertChainBuffer = NoChain \/ cert = NoChain \/ ~t.ok THEN Fail
        ELSE Ok(Sign(c.LocalUsedCertChainBuffer, t.buf))

SpdmGenerateFinishReqHmac(c, s) ==
    LET cert == PeerCertChain(c)
        mut  == IF s.mut THEN c.LocalUsedCertChainBuffer ELSE NoChain
        t    == SpdmCalculateTHCurrAKF(s, cert, mut)
    IN  IF cert = NoChain \/ (s.mut /\ mut = NoChain) \/ ~t.ok THEN Fail
        ELSE Ok(Hmac("RequestFinishedKey", t.buf))

SpdmVerifyFinishReqSignature(c, s, sig) ==
    LET mutChain == PeerCertChain(c)
        t == SpdmCalculateTHCurrAKF(s, c.LocalUsedCertChainBuffer, mutChain)
    IN  /\ c.LocalUsedCertChainBuffer # NoChain /\ mutChain # NoChain /\ t.ok
        /\ sig = Sign(mutChain, t.buf)

SpdmVerifyFinishReqHmac(c, s, hmac) ==
    LET mut == IF s.mut THEN PeerCertChain(c) ELSE NoChain
        t   == SpdmCalculateTHCurrAKF(s, c.LocalUsedCertChainBuffer, mut)
    IN  /\ c.LocalUsedCertChainBuffer # NoChain /\ ~(s.mut /\ mut = NoChain) /\ t.ok
        /\ hmac = Hmac("RequestFinishedKey", t.buf)

\* FINISH_RSP MACed with the request's finished key.
FinishRspHmacWithRequestKey(c, s) ==
    LET mut == IF s.mut THEN PeerCertChain(c) ELSE NoChain
        t   == SpdmCalculateTHCurrAKF(s, c.LocalUsedCertChainBuffer, mut)
    IN  IF c.LocalUsedCertChainBuffer = NoChain \/ (s.mut /\ mut = NoChain) \/ ~t.ok
        THEN Fail ELSE Ok(Hmac("RequestFinishedKey", t.buf))

SpdmGenerateFinishRspHmac(c, s) ==
    LET mut == IF s.mut THEN PeerCertChain(c) ELSE NoChain
        t   == SpdmCalculateTHCurrAKF(s, c.LocalUsedCertChainBuffer, mut)
    IN  IF c.LocalUsedCertChainBuffer = NoChain \/ (s.mut /\ mut = NoChain) \/ ~t.ok
        THEN Fail ELSE Ok(Hmac("ResponseFinishedKey", t.buf))

\* The requester's own chain as the mutual chain would be the peer's.
VerifyFinishRspHmacSwappedChains(c, s, hmac) ==
    LET cert == PeerCertChain(c)
        mut  == IF s.mut THEN cert ELSE NoChain
        t    == SpdmCalculateTHCurrAKF(s, cert, mut)
    IN  /\ cert # NoChain /\ ~(s.mut /\ mut = NoChain) /\ t.ok
        /\ hmac = Hmac("ResponseFinishedKey", t.buf)

SpdmVerifyFinishRspHmac(c, s, hmac) ==
    LET cert == PeerCertChain(c)
        mut  == IF s.mut THEN c.LocalUsedCertChainBuffer ELSE NoChain
        t    == SpdmCalculateTHCurrAKF(s, cert, mut)
    IN  /\ cert # NoChain /\ ~(s.mut /\ mut = NoChain) /\ t.ok
        /\ hmac = Hmac("ResponseFinishedKey", t.buf)

-----------------------------------------------------------------------------
(* PSK_EXCHANGE_RSP and PSK_FINISH: no certificate in TH.                  *)

SpdmGeneratePskExchangeRspHmac(s) ==
    LET t == SpdmCalculateTHCurrAK(s, NoChain)
    IN  IF ~t.ok THEN Fail ELSE Ok(Hmac("ResponseFinishedKey", t.buf))

SpdmVerifyPskExchangeRspHmac(s, hmac) ==
    LET t == SpdmCalculateTHCurrAK(s, NoChain)
    IN  t.ok /\ hmac = Hmac("ResponseFinishedKey", t.buf)

SpdmVerifyPskFinishReqHmac(s, hmac) ==
    LET t == SpdmCalculateTHCurrAKF(s, NoChain, NoChain)
    IN  t.ok /\ hmac = Hmac("RequestFinishedKey", t.buf)

\* SpdmRequesterGeneratePskFinishHmac (SpdmRequesterLibPskFinish.c): A, K
\* and F appended with the results ignored, so a part that does not fit is
\* silently left out and the HMAC is still produced.
SpdmRequesterGeneratePskFinishHmac(s) ==
    Hmac("RequestFinishedKey",
         AppendManagedBuffer(AppendManagedBuffer(AppendManagedBuffer(<<>>, MessageA), s.K), s.F))

-----------------------------------------------------------------------------
(* Messages and sessions                                                   *)

Msg(code, slot, mut, sig, hmac) ==
    [code |-> code, f |-> "ok", slot |-> slot, mut |-> mut, sig |-> sig, hmac |-> hmac]
Plain(code) == Msg(code, 0, FALSE, NoVal, NoVal)
\* The part of a message a transcript records before its signature/HMAC.
Body(m) == Entry(m.code, <<m.f, m.slot, m.mut>>, NoVal)
SigEntry(v) == Entry("Signature", <<"ok", 0, FALSE>>, v)
HmacEntry(v) == Entry("VerifyData", <<"ok", 0, FALSE>>, v)
AddK(s, e) == [s EXCEPT !.K = AppendManagedBuffer(@, <<e>>)]
AddF(s, e) == [s EXCEPT !.F = AppendManagedBuffer(@, <<e>>)]

NoSession ==
    [state |-> "None", live |-> FALSE, K |-> <<>>, F |-> <<>>, mut |-> FALSE, psk |-> FALSE]

\* Nothing in flight: a blocked receive can only time out.
LinkQuiet == reqChan = <<>> /\ rspChan = <<>>

Send(chan, m) == Append(chan, m)
-----------------------------------------------------------------------------
(* Requester caller: KEY_EXCHANGE/FINISH and PSK_EXCHANGE (SPDM 1.1       *)
(* order; an error frees the session).                                    *)

Failed(s) == [s EXCEPT !.pc = "failed", !.live = FALSE, !.state = "None"]

SendKeyExchange(slot) ==
    LET req == Msg("KEY_EXCHANGE", slot, FALSE, NoVal, NoVal)
    IN  /\ rq.pc = "idle"
        /\ rq' = [rq EXCEPT !.pc = "wait_ke", !.slot = slot, !.psk = FALSE,
                            !.K = AppendManagedBuffer(<<>>, <<Body(req)>>)]
        /\ reqChan' = Send(reqChan, req)
        /\ UNCHANGED <<rqCtx, rsCtx, rs, rspChan, faults, ghost>>

SendPskExchange ==
    LET req == Plain("PSK_EXCHANGE")
    IN  /\ rq.pc = "idle"
        /\ rq' = [rq EXCEPT !.pc = "wait_pske", !.psk = TRUE,
                            !.K = AppendManagedBuffer(<<>>, <<Body(req)>>)]
        /\ reqChan' = Send(reqChan, req)
        /\ UNCHANGED <<rqCtx, rsCtx, rs, rspChan, faults, ghost>>

\* A blocked receive that times out or gets the wrong response.
ExchangeFails(waitPc, code) ==
    /\ rq.pc = waitPc
    /\ \/ LinkQuiet /\ UNCHANGED rspChan
       \/ rspChan # <<>> /\ Head(rspChan).code # code /\ rspChan' = Tail(rspChan)
    /\ rq' = Failed(rq)
    /\ UNCHANGED <<rqCtx, rsCtx, rs, reqChan, faults, ghost>>

ReceiveKeyExchangeRsp ==
    LET m  == Head(rspChan)
        s1 == [AddK(rq, Body(m)) EXCEPT !.mut = m.mut]
        s2 == AddK(s1, SigEntry(m.sig))
        ok == /\ SpdmVerifyKeyExchangeRspSignature(rqCtx, s1, m.sig)
              /\ SpdmVerifyKeyExchangeRspHmac(rqCtx, s2, m.hmac)
    IN  /\ rq.pc = "wait_ke"
        /\ rspChan # <<>> /\ m.code = "KEY_EXCHANGE_RSP"
        /\ rspChan' = Tail(rspChan)
        /\ rq' = IF ok THEN [AddK(s2, HmacEntry(m.hmac)) EXCEPT
                                 !.pc = "handshaking", !.state = "Handshaking", !.live = TRUE]
                       ELSE Failed(rq)
        /\ UNCHANGED <<rqCtx, rsCtx, rs, reqChan, faults, ghost>>

ReceivePskExchangeRsp ==
    LET m  == Head(rspChan)
        s1 == AddK(rq, Body(m))
    IN  /\ rq.pc = "wait_pske"
        /\ rspChan # <<>> /\ m.code = "PSK_EXCHANGE_RSP"
        /\ rspChan' = Tail(rspChan)
        /\ rq' = IF SpdmVerifyPskExchangeRspHmac(s1, m.hmac)
                 THEN [AddK(s1, HmacEntry(m.hmac)) EXCEPT
                          !.pc = "handshaking", !.state = "Handshaking", !.live = TRUE]
                 ELSE Failed(rq)
        /\ UNCHANGED <<rqCtx, rsCtx, rs, reqChan, faults, ghost>>

SendFinish ==
    LET hdr == Plain("FINISH")
        s1  == [rq EXCEPT !.F = AppendManagedBuffer(<<>>, <<Body(hdr)>>)]
        sig == IF rq.mut THEN SpdmGenerateFinishReqSignature(rqCtx, s1) ELSE Ok(NoVal)
        s2  == IF rq.mut THEN AddF(s1, SigEntry(sig.val)) ELSE s1
        mac == SpdmGenerateFinishReqHmac(rqCtx, s2)
    IN  /\ rq.pc = "handshaking" /\ ~rq.psk
        /\ \/ /\ sig.ok /\ mac.ok
              /\ rq' = [AddF(s2, HmacEntry(mac.val)) EXCEPT !.pc = "wait_finish"]
              /\ reqChan' = Send(reqChan, [hdr EXCEPT !.sig = sig.val, !.hmac = mac.val])
           \/ /\ ~sig.ok \/ ~mac.ok
              /\ rq' = Failed(rq)
              /\ UNCHANGED reqChan
        /\ UNCHANGED <<rqCtx, rsCtx, rs, rspChan, faults, ghost>>

ReceiveFinishRsp ==
    LET m  == Head(rspChan)
        s1 == AddF(rq, Body(m))
    IN  /\ rq.pc = "wait_finish"
        /\ rspChan # <<>> /\ m.code = "FINISH_RSP"
        /\ rspChan' = Tail(rspChan)
        /\ rq' = IF SpdmVerifyFinishRspHmac(rqCtx, s1, m.hmac)
                 THEN [AddF(s1, HmacEntry(m.hmac)) EXCEPT
                          !.pc = "done", !.state = "Established", !.dataKey = TRUE]
                 ELSE Failed(rq)
        /\ UNCHANGED <<rqCtx, rsCtx, rs, reqChan, faults, ghost>>


-----------------------------------------------------------------------------
(* SpdmSendReceivePskFinish (SpdmRequesterLibPskFinish.c), split at the    *)
(* point where it blocks for the response.  Every error return leaves the  *)
(* session slot, its state and what was appended to MessageF in place.     *)

PskFinishSend ==
    LET hdr == Plain("PSK_FINISH")
        s1  == AddF(rq, Body(hdr))
        mac == SpdmRequesterGeneratePskFinishHmac(s1)
        s2  == [AddF(s1, HmacEntry(mac)) EXCEPT !.calls = @ + 1,
                                                !.err = "NO_CAPABILITIES"]
    IN  /\ rq.pc = "handshaking" /\ rq.psk
        /\ rq.calls < MaxPskFinishCalls
        /\ \/ /\ ~rqCtx.pskCap
              /\ rq' = [rq EXCEPT !.calls = @ + 1, !.status = "DEVICE_ERROR"]
              /\ UNCHANGED <<reqChan, faults>>
           \/ /\ rqCtx.pskCap
              /\ rq' = [s2 EXCEPT !.pc = "wait_pskfinish"]
              /\ reqChan' = Send(reqChan, [hdr EXCEPT !.hmac = mac])
              /\ UNCHANGED faults
           \/ /\ rqCtx.pskCap /\ faults < MaxFaults
              /\ rq' = [s2 EXCEPT !.status = "DEVICE_ERROR"]
              /\ faults' = faults + 1
              /\ UNCHANGED reqChan
        /\ UNCHANGED <<rqCtx, rsCtx, rs, rspChan, ghost>>

\* The PSK_FINISH_RSP left out of MessageF.
PskFinishReceiveNoAppend ==
    LET m == Head(rspChan)
    IN  /\ rq.pc = "wait_pskfinish"
        /\ \/ /\ LinkQuiet
              /\ rq' = [rq EXCEPT !.pc = "handshaking", !.status = "DEVICE_ERROR"]
              /\ UNCHANGED rspChan
           \/ /\ rspChan # <<>> /\ m.code # "PSK_FINISH_RSP"
              /\ rq' = [rq EXCEPT !.pc = "handshaking", !.status = "DEVICE_ERROR"]
              /\ rspChan' = Tail(rspChan)
           \/ /\ rspChan # <<>> /\ m.code = "PSK_FINISH_RSP"
              /\ rq' = [rq EXCEPT
                           !.pc = "done", !.state = "Established", !.dataKey = TRUE,
                           !.err = "SUCCESS", !.status = "SUCCESS"]
              /\ rspChan' = Tail(rspChan)
        /\ UNCHANGED <<rqCtx, rsCtx, rs, reqChan, faults, ghost>>

PskFinishReceive ==
    LET m == Head(rspChan)
    IN  /\ rq.pc = "wait_pskfinish"
        /\ \/ /\ LinkQuiet
              /\ rq' = [rq EXCEPT !.pc = "handshaking", !.status = "DEVICE_ERROR"]
              /\ UNCHANGED rspChan
           \/ /\ rspChan # <<>> /\ m.code # "PSK_FINISH_RSP"
              /\ rq' = [rq EXCEPT !.pc = "handshaking", !.status = "DEVICE_ERROR"]
              /\ rspChan' = Tail(rspChan)
           \/ /\ rspChan # <<>> /\ m.code = "PSK_FINISH_RSP"
              /\ rq' = [AddF(rq, Body(m)) EXCEPT
                           !.pc = "done", !.state = "Established", !.dataKey = TRUE,
                           !.err = "SUCCESS", !.status = "SUCCESS"]
              /\ rspChan' = Tail(rspChan)
        /\ UNCHANGED <<rqCtx, rsCtx, rs, reqChan, faults, ghost>>

-----------------------------------------------------------------------------
(* Responder handlers (SPDM 1.1 order).  A handler that fails answers      *)
(* ERROR and frees its session.  ghost records the transcripts the        *)
(* responder derived its handshake keys (K) and data keys (F) over.       *)

Answer(m, s, g) ==
    /\ UNCHANGED <<rqCtx, rq, faults>>
    /\ reqChan' = Tail(reqChan)
    /\ rspChan' = Send(rspChan, m)
    /\ rs' = s
    /\ ghost' = g

Reject == Answer(Plain("ERROR"), NoSession, ghost)

RespondKeyExchange ==
    LET m     == Head(reqChan)
        chain == rsCtx.CertificateChain[m.slot]
        ctx   == [rsCtx EXCEPT !.LocalUsedCertChainBuffer = chain]
        hdr   == Msg("KEY_EXCHANGE_RSP", 0, rsCtx.mutPolicy, NoVal, NoVal)
        s1    == AddK([NoSession EXCEPT !.K = <<Body(m)>>, !.mut = rsCtx.mutPolicy],
                      Body(hdr))
        sig   == SpdmGenerateKeyExchangeRspSignature(ctx, s1)
        s2    == AddK(s1, SigEntry(sig.val))
        mac   == SpdmGenerateKeyExchangeRspHmac(ctx, s2)
        s3    == [AddK(s2, HmacEntry(mac.val)) EXCEPT !.state = "Handshaking", !.live = TRUE]
    IN  /\ reqChan # <<>> /\ m.code = "KEY_EXCHANGE"
        /\ \/ /\ chain # NoChain /\ sig.ok /\ mac.ok
              /\ Answer([hdr EXCEPT !.sig = sig.val, !.hmac = mac.val], s3,
                        [ghost EXCEPT !.th1 = s3.K])
              /\ rsCtx' = ctx
           \/ /\ chain = NoChain \/ ~sig.ok \/ ~mac.ok
              /\ Reject /\ UNCHANGED rsCtx

RespondPskExchange ==
    LET m   == Head(reqChan)
        hdr == Plain("PSK_EXCHANGE_RSP")
        s1  == AddK([NoSession EXCEPT !.K = <<Body(m)>>, !.psk = TRUE], Body(hdr))
        mac == SpdmGeneratePskExchangeRspHmac(s1)
        s2  == [AddK(s1, HmacEntry(mac.val)) EXCEPT !.state = "Handshaking", !.live = TRUE]
    IN  /\ reqChan # <<>> /\ m.code = "PSK_EXCHANGE"
        /\ \/ /\ rsCtx.pskCap /\ mac.ok
              /\ Answer([hdr EXCEPT !.hmac = mac.val], s2, [ghost EXCEPT !.th1 = s2.K])
           \/ /\ ~rsCtx.pskCap \/ ~mac.ok
              /\ Reject
        /\ UNCHANGED rsCtx


RespondFinish ==
    LET m   == Head(reqChan)
        s1  == [rs EXCEPT !.F = AppendManagedBuffer(<<>>, <<Body(m)>>)]
        s2  == IF rs.mut THEN AddF(s1, SigEntry(m.sig)) ELSE s1
        s3  == AddF(s2, HmacEntry(m.hmac))
        hdr == Plain("FINISH_RSP")
        s4  == AddF(s3, Body(hdr))
        mac == SpdmGenerateFinishRspHmac(rsCtx, s4)
        s5  == [AddF(s4, HmacEntry(mac.val)) EXCEPT !.state = "Established"]
        ok  == /\ rs.state = "Handshaking" /\ ~rs.psk
               /\ rs.mut => SpdmVerifyFinishReqSignature(rsCtx, s1, m.sig)
               /\ SpdmVerifyFinishReqHmac(rsCtx, s2, m.hmac)
               /\ mac.ok
    IN  /\ reqChan # <<>> /\ m.code = "FINISH"
        /\ \/ ok /\ Answer([hdr EXCEPT !.hmac = mac.val], s5, [ghost EXCEPT !.th2 = s5.F])
           \/ ~ok /\ Reject
        /\ UNCHANGED rsCtx

RespondPskFinish ==
    LET m   == Head(reqChan)
        s1  == AddF(rs, Body(m))
        hdr == Plain("PSK_FINISH_RSP")
        s2  == [AddF(AddF(s1, HmacEntry(m.hmac)), Body(hdr)) EXCEPT !.state = "Established"]
        ok  == /\ rs.state = "Handshaking" /\ rs.psk
               /\ SpdmVerifyPskFinishReqHmac(s1, m.hmac)
    IN  /\ reqChan # <<>> /\ m.code = "PSK_FINISH"
        /\ \/ ok /\ Answer(hdr, s2, [ghost EXCEPT !.th2 = s2.F])
           \/ ~ok /\ Reject
        /\ UNCHANGED rsCtx

-----------------------------------------------------------------------------
(* The link: a message may be lost or have an unsigned field altered.      *)
(* FINISH, PSK_FINISH and their responses travel inside the session as    *)
(* secured messages under the handshake keys, where an alteration fails   *)
(* the record's MAC and is a receive error, that is, a loss; only the     *)
(* exchanges that open the session can be altered.                        *)

Altered(m) == [m EXCEPT !.f = "altered"]
OutsideSession == {"KEY_EXCHANGE", "KEY_EXCHANGE_RSP", "PSK_EXCHANGE", "PSK_EXCHANGE_RSP"}

LoseRequest ==
    /\ reqChan # <<>> /\ faults < MaxFaults
    /\ reqChan' = Tail(reqChan) /\ faults' = faults + 1
    /\ UNCHANGED <<rqCtx, rsCtx, rq, rs, rspChan, ghost>>

LoseResponse ==
    /\ rspChan # <<>> /\ faults < MaxFaults
    /\ rspChan' = Tail(rspChan) /\ faults' = faults + 1
    /\ UNCHANGED <<rqCtx, rsCtx, rq, rs, reqChan, ghost>>

AlterRequest ==
    /\ reqChan # <<>> /\ Head(reqChan).f = "ok" /\ Head(reqChan).code \in OutsideSession
    /\ faults < MaxFaults
    /\ reqChan' = [reqChan EXCEPT ![1] = Altered(@)] /\ faults' = faults + 1
    /\ UNCHANGED <<rqCtx, rsCtx, rq, rs, rspChan, ghost>>

AlterResponse ==
    /\ rspChan # <<>> /\ Head(rspChan).f = "ok" /\ Head(rspChan).code \in OutsideSession
    /\ faults < MaxFaults
    /\ rspChan' = [rspChan EXCEPT ![1] = Altered(@)] /\ faults' = faults + 1
    /\ UNCHANGED <<rqCtx, rsCtx, rq, rs, reqChan, ghost>>

-----------------------------------------------------------------------------

HsInit ==
    /\ rsCtx \in [CertificateChain : [Slots -> AllChains],
                  PeerCertChainBuffer : AllChains, PeerCertChainProvision : AllChains,
                  LocalUsedCertChainBuffer : {NoChain},
                  mutPolicy : BOOLEAN, pskCap : BOOLEAN]
    \* The requester's buffer holds a chain some slot offered (GET_CERTIFICATE)
    \* or nothing; provisions and its own chain are configured freely.  Its
    \* PSK_CAP is the flag the responder advertised in CAPABILITIES, which
    \* need not match what the responder's PSK_EXCHANGE handler accepts.
    /\ rqCtx \in [PeerCertChainBuffer :
                      {NoChain} \cup {rsCtx.CertificateChain[i] : i \in Slots},
                  PeerCertChainProvision : AllChains,
                  LocalUsedCertChainBuffer : AllChains,
                  pskCap : BOOLEAN]
    /\ rsCtx.PeerCertChainBuffer \in {NoChain, rqCtx.LocalUsedCertChainBuffer}
    /\ rq = [pc |-> "idle", state |-> "None", live |-> FALSE, K |-> <<>>, F |-> <<>>,
             mut |-> FALSE, psk |-> FALSE, slot |-> 0, dataKey |-> FALSE, calls |-> 0,
             status |-> "NONE", err |-> "NONE"]
    /\ rs = NoSession
    /\ reqChan = <<>> /\ rspChan = <<>>
    /\ faults = 0
    /\ ghost = [th1 |-> <<>>, th2 |-> <<>>]

\* The caller has nothing left to do and nothing is in flight.
HsDone ==
    /\ \/ rq.pc \in {"done", "failed"}
       \/ rq.pc = "handshaking" /\ rq.psk /\ rq.calls = MaxPskFinishCalls
    /\ reqChan = <<>>
    /\ UNCHANGED hsVars

RequesterStep ==
    \/ \E slot \in Slots : SendKeyExchange(slot)
    \/ SendPskExchange
    \/ ExchangeFails("wait_ke", "KEY_EXCHANGE_RSP")
    \/ ExchangeFails("wait_pske", "PSK_EXCHANGE_RSP")
    \/ ExchangeFails("wait_finish", "FINISH_RSP")
    \/ ReceiveKeyExchangeRsp
    \/ ReceivePskExchangeRsp
    \/ SendFinish
    \/ ReceiveFinishRsp
    \/ PskFinishSend
    \/ PskFinishReceive

ResponderStep ==
    RespondKeyExchange \/ RespondPskExchange \/ RespondFinish \/ RespondPskFinish

LinkFault == LoseRequest \/ LoseResponse \/ AlterRequest \/ AlterResponse

HsNext == RequesterStep \/ ResponderStep \/ LinkFault \/ HsDone

\* The requester's caller and the responder's dispatcher keep running while
\* they have something to do; the link's faults are never forced.
HsFairness == WF_hsVars(RequesterStep) /\ WF_hsVars(ResponderStep)

HsSpec == HsInit /\ [][HsNext]_hsVars /\ HsFairness

\* Consistent set-up: the responder's view of the requester's chain is the
\* chain the requester signs with whenever mutual authentication may be
\* asked, and the PSK_CAP the requester saw is what the responder's
\* PSK_EXCHANGE handler accepts.
MutualViewsAgree ==
    rsCtx.mutPolicy =>
        /\ rqCtx.LocalUsedCertChainBuffer # NoChain
        /\ PeerCertChain(rsCtx) = rqCtx.LocalUsedCertChainBuffer

HsLiveInit == HsInit /\ MutualViewsAgree /\ rqCtx.pskCap = rsCtx.pskCap

HsLiveSpec == HsLiveInit /\ [][HsNext]_hsVars /\ HsFairness


-----------------------------------------------------------------------------
(* Properties                                                              *)

HsTypeOK ==
    /\ rq.pc \in {"idle", "wait_ke", "wait_pske", "handshaking", "wait_finish",
                  "wait_pskfinish", "done", "failed"}
    /\ rq.state \in {"None", "Handshaking", "Established"}
    /\ rs.state \in {"None", "Handshaking", "Established"}
    /\ rq.status \in {"NONE", "DEVICE_ERROR", "SUCCESS"}
    /\ rq.calls \in 0..MaxPskFinishCalls
    /\ \A t \in {rq.K, rq.F, rs.K, rs.F} : Len(t) <= TranscriptCap
    /\ faults \in 0..MaxFaults
    \* signatures on the link are made with a real chain, requests are MACed
    \* with the request finished key and responses with the response one
    /\ \A m \in Range(reqChan) \cup Range(rspChan) : m.sig = NoVal \/ m.sig.key \in Chains
    /\ \A m \in Range(reqChan) : m.hmac = NoVal \/ m.hmac.key = "RequestFinishedKey"
    /\ \A m \in Range(rspChan) : m.hmac = NoVal \/ m.hmac.key = "ResponseFinishedKey"

\* Once the requester has verified KEY_EXCHANGE_RSP (or PSK_EXCHANGE_RSP)
\* and derived its handshake keys, its MessageK is the very transcript the
\* responder signed and MACed: an altered request or response on the link
\* cannot leave the two sides with different TH1.  It rests on
\* SpdmCalculateTHCurrAK covering K on both sides.
KeyExchangeTranscriptAgrees ==
    rq.state \in {"Handshaking", "Established"} => rq.K = ghost.th1

\* When the requester reaches Established (FINISH_RSP or PSK_FINISH_RSP
\* verified), its MessageF equals the one the responder established the
\* session over, so both derive the data keys from the same TH2.
FinishTranscriptAgrees ==
    rq.state = "Established" => rq.F = ghost.th2

\* Unless the link fails, a session whose key exchange the requester
\* verified always reaches Established: the FINISH/FINISH_RSP (or
\* PSK_FINISH) HMACs and signature that one side generates are the ones the
\* other side verifies, mutual or not.  Checked under HsLiveSpec, from the
\* configurations in which the two contexts were set up consistently.
HandshakeCompletes ==
    (rq.state = "Handshaking" /\ faults = 0)
        ~> (rq.state = "Established" \/ faults > 0)

\* spec.md section 7: any error during session establishment frees the
\* partially initialised slot.  SpdmSendReceivePskFinish returns
\* RETURN_DEVICE_ERROR on a send, receive or response error and frees
\* nothing.
PskFinishErrorFreesSlot ==
    rq.status = "DEVICE_ERROR" => ~rq.live

=============================================================================
