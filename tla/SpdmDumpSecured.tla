--------------------------- MODULE SpdmDumpSecured ---------------------------
(***************************************************************************)
(* The SpdmDump tool reading a capture of the PCI DOE mailbox while a     *)
(* requester and a responder run their sessions (SpdmSecuredMessage).     *)
(* The capture holds every record sealed, in the order it was sent, and   *)
(* what else the mailbox carried: short objects, other vendors' objects,  *)
(* plain SPDM and DOE discovery, and secured objects too short for their  *)
(* header.  The tool holds its own copy of every session's secrets, with  *)
(* its own sequence numbers.                                               *)
(*                                                                         *)
(* DumpPciDoePacket (PciDoeDump.c) dispatches an object; a secured one    *)
(* reaches DumpSecuredSpdmMessage (SpdmDumpSecuredSpdm.c), which guesses  *)
(* the direction by flipping a STATIC IsRequester, decodes, and on        *)
(* failure decodes again in the other direction.  Decoding a FINISH_RSP   *)
(* makes the tool switch the session to its data keys, as the endpoints   *)
(* do (the SPDM message dumpers that do so are not in the repository).   *)
(***************************************************************************)
EXTENDS SpdmSecuredMessage

CONSTANTS
  MaxNoise,         \* bound: non-secured or short objects in the capture
  MaxMissed,        \* bound: records sent but not captured
  NoSession         \* mCurrentSessionInfo before any record was decoded

(* What the mailbox may carry besides full secured records.  Every object *)
(* DumpPciDoePacket does not pass on as secured SPDM (shorter than the DOE *)
(* header, another vendor's, plain SPDM, DOE discovery, another type)      *)
(* leaves the tool's session state alone, so one value stands for them.   *)
DoeOther == "other"
SecuredRunt == "runt"            \* secured, shorter than its ADATA header
NoiseKinds == {DoeOther, SecuredRunt}

(* A captured DOE object: its type, whether it holds a whole ADATA header, *)
(* and the record it carries.                                              *)
Secured(r) == [doe |-> "secured", full |-> TRUE, rec |-> r]
NoiseObject(k) == [doe |-> IF k = SecuredRunt THEN "secured" ELSE k, full |-> FALSE]

VARIABLES
  capture,          \* the objects captured, in order
  pos,              \* how many the tool has dumped
  dumpView,         \* mSpdmContext: the tool's view of each session
  isRequester,      \* the STATIC IsRequester of DumpSecuredSpdmMessage
  currentSession,   \* mCurrentSessionInfo
  shown,            \* what the tool printed for the last object
  noise,
  missed            \* records sent but not in the capture

dumpVars == <<capture, pos, dumpView, isRequester, currentSession, shown, noise, missed>>
vars == <<codecVars, dumpVars>>

DirOf(isReq) == IF isReq THEN "req" ELSE "rsp"

(* The SPDM message dumper on a decrypted message: FINISH_RSP (and         *)
(* PSK_FINISH_RSP) makes the tool derive the data keys of the session.    *)
DumpSpdmMessage(v, s, r) ==
  IF r.kind = "finish_rsp" THEN Establish(v, s) ELSE v

(* Mutant: the successful retry does not flip IsRequester back. *)
DumpSecuredSpdmMessageNoFlip(o) ==
  LET r == o.rec
      guess == ~isRequester
      d1 == SpdmDecodeSecuredMessage(dumpView, DirOf(guess), r)
      d2 == SpdmDecodeSecuredMessage(d1.view, DirOf(~guess), r)
      d == IF d1.ok THEN d1 ELSE d2
  IN  IF ~o.full
      THEN /\ shown' = "none"
           /\ UNCHANGED <<dumpView, isRequester, currentSession>>
      ELSE /\ isRequester' = guess
           /\ IF d.ok
              THEN /\ currentSession' = r.session
                   /\ dumpView' = DumpSpdmMessage(d.view, r.session, r)
                   /\ shown' = DirOf(guess)
              ELSE /\ dumpView' = d.view
                   /\ shown' = "unknown"
                   /\ UNCHANGED currentSession

(***************************************************************************)
(* DumpSecuredSpdmMessage on a record with its header: flip IsRequester,  *)
(* decode in that direction, else in the other and flip back on success;  *)
(* print REQ->RSP or RSP->REQ from IsRequester, or "(?)->(?)".  An object *)
(* shorter than the header prints a newline and leaves IsRequester alone.  *)
(* (PciDoeDump.c calls it through DumpSecuredSpdmPacket, which the         *)
(* repository does not define; it is taken to pass the object on.)         *)
(***************************************************************************)
DumpSecuredSpdmMessage(o) ==
  LET r == o.rec
      guess == ~isRequester
      d1 == SpdmDecodeSecuredMessage(dumpView, DirOf(guess), r)
      d2 == SpdmDecodeSecuredMessage(d1.view, DirOf(~guess), r)
      final == IF ~d1.ok /\ d2.ok THEN ~guess ELSE guess
      d == IF d1.ok THEN d1 ELSE d2
  IN  IF ~o.full
      THEN /\ shown' = "none"
           /\ UNCHANGED <<dumpView, isRequester, currentSession>>
      ELSE /\ isRequester' = final
           /\ IF d.ok
              THEN /\ currentSession' = r.session
                   /\ dumpView' = DumpSpdmMessage(d.view, r.session, r)
                   /\ shown' = DirOf(final)
              ELSE /\ dumpView' = d.view
                   /\ shown' = "unknown"
                   /\ UNCHANGED currentSession

(***************************************************************************)
(* DumpPciDoePacket: a secured-SPDM object goes to DumpSecuredSpdmMessage; *)
(* short objects and other vendors' are skipped, plain SPDM goes to the   *)
(* plain dumper (no session state) and discovery is TBD.                   *)
(***************************************************************************)
DumpPciDoePacket ==
  /\ pos < Len(capture)
  /\ pos' = pos + 1
  /\ LET o == capture[pos + 1]
     IN  IF o.doe = "secured"
         THEN DumpSecuredSpdmMessage(o)
         ELSE /\ shown' = "none"
              /\ UNCHANGED <<dumpView, isRequester, currentSession>>
  /\ UNCHANGED <<capture, noise, missed, codecVars>>

(* The mailbox carries something other than a full secured record. *)
MailboxNoise ==
  /\ noise < MaxNoise /\ noise' = noise + 1
  /\ \E k \in NoiseKinds :
       capture' = Append(capture, NoiseObject(k))
  /\ UNCHANGED <<pos, dumpView, isRequester, currentSession, shown, missed, codecVars>>

(* A codec step; a record it seals is captured as it is sent, or, when   *)
(* the capture starts late or drops a packet, missed.                     *)
Traffic ==
  /\ CodecNext
  /\ IF Len(sent') > Len(sent)
     THEN \/ capture' = Append(capture, Secured(sent'[Len(sent')])) /\ UNCHANGED missed
          \/ missed < MaxMissed /\ missed' = missed + 1 /\ UNCHANGED capture
     ELSE UNCHANGED <<capture, missed>>
  /\ UNCHANGED <<pos, dumpView, isRequester, currentSession, shown, noise>>

Init ==
  /\ CodecInit
  /\ capture = <<>> /\ pos = 0
  /\ dumpView = [s \in Sessions |-> NewSessionView]
  /\ isRequester = FALSE
  /\ currentSession = NoSession
  /\ shown = "none"
  /\ noise = 0
  /\ missed = 0

Next == Traffic \/ MailboxNoise \/ DumpPciDoePacket

Spec == Init /\ [][Next]_vars

-----------------------------------------------------------------------------
DumpTypeOK ==
  /\ SecTypeOK
  /\ dumpView \in [Sessions -> SessionView]
  /\ pos \in 0 .. Len(capture)
  /\ isRequester \in BOOLEAN
  /\ currentSession \in Sessions \cup {NoSession}
  /\ shown \in Dirs \cup {"unknown", "none"}
  /\ noise \in 0 .. MaxNoise
  /\ missed \in 0 .. MaxMissed

(* Whatever order the two sessions' requests, responses and responder-   *)
(* initiated messages take on the mailbox, and whatever else it carries,  *)
(* DumpSecuredSpdmMessage never prints a record with the wrong direction, *)
(* and, when the capture missed nothing, decodes every record: a wrong   *)
(* guess of IsRequester costs nothing, because a failed decode leaves the *)
(* sequence numbers alone and the retry flips IsRequester back.           *)
DumpShowsEachRecordWithItsSender ==
  [][pos' = pos + 1 /\ capture[pos'].full
       => /\ shown' \in Dirs => shown' = capture[pos'].rec.dir
          /\ missed = 0 => shown' # "unknown"]_vars
====
