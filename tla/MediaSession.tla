---------------------------- MODULE MediaSession ----------------------------
(***************************************************************************)
(* The media of one call between two DeeLip ends, from the offer to the    *)
(* end of the call: what the two negotiate, the media engine each client   *)
(* starts, stops and starts again, and the voice that goes from one to the *)
(* other, in the clear or under keys of SDES, ZRTP or DTLS.                *)
(*                                                                         *)
(* An engine is its tasks: `send_loop` and `recv_loop` each own their half *)
(* of the SRTP contexts, and a new outgoing key goes from the receive task *)
(* to the send task over a channel.  The DTLS handshake is a task of its   *)
(* own that holds the RTP socket.  ZRTP runs in the receive task: that is  *)
(* the module Zrtp, whose engines are made and dropped with ours.  Video   *)
(* has an engine of its own; what goes from the caller's to the callee's   *)
(* is the module VideoStream.                                              *)
(*                                                                         *)
(* Left out: the signalling (module SipCalls), which of several calls has  *)
(* the audio and the recordings (module CallSlots), and what is done to    *)
(* samples.  A voice frame is who may decrypt it and what is in it.        *)
(***************************************************************************)
EXTENDS Zrtp, VideoStream, Negotiation, FiniteSets

CONSTANT Scenarios    \* the settings of the two accounts, and of the network

(* Two accounts, the ends whose certificate is not the one described, and  *)
(* of how many parts each frame of the camera is.                          *)
ASSUME ScenariosAssumption ==
    Scenarios \subseteq
        [accounts: [Ends -> Account], forged: SUBSET Ends, film: Seq(Nat \ {0})]

VARIABLES
    setting,  \* the scenario; fixed
    sdp,      \* caller -> its offer, callee -> its answer
    call,     \* CallMediaReady of each end
    shown,    \* what the client of each end makes of the call
    engine,   \* MediaEngine of each end
    video,    \* the ends with a VideoEngine
    lingers,  \* the ends whose RTP port a handshake task still holds
    air       \* the voice frame on its way; one at a time

session == <<setting, sdp, call>>
vars    == <<session, shown, engine, video, lingers, air, stream, zvars>>

-----------------------------------------------------------------------------
(* Values *)

account(e) == setting.accounts[e]

NoSdp == <<>>

(* A frame is speech of some codec, or comfort noise, which has a payload  *)
(* type of its own; and it is encrypted with a key or is not.              *)
NoFrame == [to |-> "nobody", key |-> PlainKey, what |-> "nothing", codec |-> "none"]

(* `id` counts the engines of an end.  `leg` is which of an engine's legs  *)
(* this call is; the second is another call's, or a conference's.          *)
(* `queued` is the key on its way from the receive task to the send task;  *)
(* `stopping` the watch channel.                                           *)
NoEngineAt(id) ==
    [id |-> id, leg |-> 1, tasks |-> {}, sendKey |-> PlainKey, recvKey |-> PlainKey,
     queued |-> PlainKey, dtls |-> "none", stopping |-> FALSE]

Up(e, task) == task \in engine[e].tasks

-----------------------------------------------------------------------------
(* Negotiation.                                                            *)

(* The call is placed: initiate_call and on_outgoing_offer_ready.          *)
MakeOffer ==
    /\ sdp["caller"] = NoSdp
    /\ \E luck \in Luck(account("caller")) :
           sdp' = [sdp EXCEPT !["caller"] = Offer("caller", account("caller"), luck)]
    /\ UNCHANGED <<setting, call, shown, engine, video, lingers, air, stream, zvars>>

(* accept_call and on_incoming_answer_ready; with no codec in common the   *)
(* call is rejected, and with checks to await it rings on: nothing more    *)
(* happens.                                                                *)
MakeAnswer ==
    /\ sdp["caller"] # NoSdp /\ sdp["callee"] = NoSdp
    /\ CanAnswer(account("callee"), sdp["caller"])
    /\ \E luck \in Luck(account("callee")) :
           /\ AwaitsNoChecks(account("callee"), luck, sdp["caller"])
           /\ LET answer == Answer("callee", account("callee"), luck, sdp["caller"])
              IN  /\ sdp' = [sdp EXCEPT !["callee"] = answer.sdp]
                  /\ call' = [call EXCEPT !["callee"] = answer.call]
    /\ shown' = [shown EXCEPT !["callee"] = "connecting"]
    /\ UNCHANGED <<setting, engine, video, lingers, air, stream, zvars>>

(* handle_connected and on_outgoing_connected.                             *)
ReadAnswer ==
    /\ sdp["callee"] # NoSdp /\ call["caller"] = NoCall
    /\ call' = [call EXCEPT !["caller"] =
                    Conclude(account("caller"), sdp["caller"], sdp["callee"])]
    /\ shown' = [shown EXCEPT !["caller"] = "connecting"]
    /\ UNCHANGED <<setting, sdp, engine, video, lingers, air, stream, zvars>>

-----------------------------------------------------------------------------
(* Starting and stopping.                                                  *)

(* The engine MediaEngine::start makes.  Each end encrypts with the key it *)
(* declared and decrypts with the other's.  A conference is started with   *)
(* neither ZRTP nor DTLS.  Of its two legs the first is this call's own    *)
(* only if it is the first of the client's calls.                          *)
EngineKeys(e) == [send |-> call[e].audio.sendKey, recv |-> call[e].audio.recvKey]
DtlsTask(e, conference) ==
    IF call[e].role # NoSetup /\ ~conference THEN "shaking" ELSE "none"

NewEngine(e, conference, leg) ==
    [id |-> engine[e].id + 1, leg |-> leg, tasks |-> {"send", "recv"},
     sendKey |-> EngineKeys(e).send, recvKey |-> EngineKeys(e).recv, queued |-> PlainKey,
     dtls |-> DtlsTask(e, conference), stopping |-> FALSE]

(* MediaEngine::stop: both tasks are gone when it returns.  A DTLS         *)
(* handshake is neither aborted nor awaited.                               *)
StopTasks(e) == engine' = [engine EXCEPT ![e] = NoEngineAt(@.id)]
LingeringTasks(e) == lingers \cup {e}    \* mutant: aborted tasks are not awaited
Lingering(e) == IF engine[e].dtls = "shaking" THEN lingers \cup {e} ELSE lingers

StopZrtpNever(e) == UNCHANGED zvars    \* mutant: the handshake outlives the engine
StopZrtp(e) == IF Running(e) THEN Stop(e) ELSE UNCHANGED zvars

(* MediaEngine::start: with a port that is still bound it fails, and the   *)
(* call is left without audio; a leg with a relay binds nothing.           *)
PortTaken(e, holders) == e \in holders /\ sdp[e][1].host[2] # "relay"

(* VideoEngine::start and stop.  The caller's has a camera, the callee's   *)
(* a screen; the other direction is the same.                              *)
HasVideoLeg(e) == call[e].video # NoLeg
NextCamera(e) ==
    IF e = "caller" /\ HasVideoLeg(e) THEN NewCamera(engine[e].id + 1) ELSE UNCHANGED stream
StopVideo(e) ==
    /\ video' = video \ {e}
    /\ IF e = "callee" THEN StopScreen ELSE UNCHANGED stream
StartVideo(e) ==
    /\ video' = IF HasVideoLeg(e) THEN video \cup {e} ELSE video
    /\ NextCamera(e)
RestartVideo(e) ==
    /\ video' = IF HasVideoLeg(e) THEN video \cup {e} ELSE video \ {e}
    /\ IF e = "callee" THEN StopScreen ELSE NextCamera(e)

(* start_media: the engine, ZRTP in it and the video beside it; or nothing. *)
Started(e) ==
    /\ engine["caller"].id + engine["callee"].id < MaxStarts
    /\ IF PortTaken(e, lingers)
       THEN /\ engine' = [engine EXCEPT ![e].id = @ + 1]
            /\ UNCHANGED <<video, stream, zvars>>
       ELSE /\ engine' = [engine EXCEPT ![e] = NewEngine(e, FALSE, 1)]
            /\ StartVideo(e)
            /\ IF account(e).keying = "zrtp" THEN Start(e) ELSE UNCHANGED zvars

(* CallConnected has come.                                                 *)
StartMedia(e) ==
    /\ shown[e] = "connecting"
    /\ shown' = [shown EXCEPT ![e] = "active"]
    /\ Started(e)
    /\ UNCHANGED <<session, lingers, air>>

(* do_hold_slot: at once, before the re-INVITE is answered.  The far end's *)
(* engine goes on.                                                         *)
Hold(e) ==
    /\ shown[e] = "active"
    /\ shown' = [shown EXCEPT ![e] = "held"]
    /\ StopTasks(e) /\ StopZrtp(e) /\ StopVideo(e)
    /\ lingers' = Lingering(e)
    /\ UNCHANGED <<session, air>>

(* do_swap_to: the media of the call that was there before it was held.    *)
Resume(e) ==
    /\ shown[e] = "held"
    /\ shown' = [shown EXCEPT ![e] = "active"]
    /\ Started(e)
    /\ UNCHANGED <<session, lingers, air>>

(* start_conference: the engine is stopped and one for two legs is         *)
(* started, of which this call is either.                                  *)
Merge(e) ==
    /\ shown[e] \in {"active", "held"}
    /\ engine["caller"].id + engine["callee"].id < MaxStarts
    /\ StopZrtp(e)
    /\ lingers' = Lingering(e)
    /\ IF PortTaken(e, lingers')
       THEN /\ engine' = [engine EXCEPT ![e] = NoEngineAt(@.id + 1)]
            /\ shown' = shown
            /\ StopVideo(e)
       ELSE /\ \E leg \in {1, 2} : engine' = [engine EXCEPT ![e] = NewEngine(e, TRUE, leg)]
            /\ shown' = [shown EXCEPT ![e] = "conference"]
            /\ RestartVideo(e)
    /\ UNCHANGED <<session, air>>

(* do_hangup, and CallEnded at the other end.                              *)
HangUp(e) ==
    /\ shown[e] \notin {"none", "ended"}
    /\ shown' = [shown EXCEPT ![e] = "ended"]
    /\ StopTasks(e) /\ StopZrtp(e) /\ StopVideo(e)
    /\ lingers' = Lingering(e)
    /\ UNCHANGED <<session, air>>

-----------------------------------------------------------------------------
(* Keys.                                                                   *)

(* The keys of a handshake: what each end sends is encrypted with its own. *)
SwitchKeysAsCaller(e, kind, pair) ==    \* mutant: the role is not looked at
    [engine EXCEPT ![e].recvKey = KeyOf(kind, "callee", pair),
                   ![e].queued = KeyOf(kind, "caller", pair)]
SwitchKeys(e, kind, pair) ==
    [engine EXCEPT ![e].recvKey = KeyOf(kind, Peer(e), pair),
                   ![e].queued = KeyOf(kind, e, pair)]

(* What the receive task does for ZRTP: a packet, or its interval.  On     *)
(* SecureOn handle_zrtp_outcomes switches the keys.                        *)
ZrtpStep(e) ==
    /\ Up(e, "recv")
    /\ Handshake(e)
    /\ engine' = IF hs'[e].phase = "Secure" /\ hs[e].phase # "Secure"
                 THEN SwitchKeys(e, "zrtp", hs[e].key) ELSE engine
    /\ UNCHANGED <<session, shown, video, lingers, air, stream>>

LoseZrtp ==
    /\ \E m \in wire : Lose(m)
    /\ UNCHANGED <<session, shown, engine, video, lingers, air, stream>>

(* The handshake of webrtc_dtls completes between two tasks that are at it *)
(* with opposite roles; either may see it first.                           *)
DtlsPair == <<engine["caller"].id, engine["callee"].id>>
DtlsKey(e) == KeyOf("dtls", Peer(e), DtlsPair)
DtlsCompletes(e) ==
    /\ engine[e].dtls = "shaking"
    /\ {call["caller"].role, call["callee"].role} = {"active", "passive"}
    /\ \/ engine[Peer(e)].dtls = "shaking"
       \/ engine[Peer(e)].recvKey = DtlsKey(Peer(e))
       \/ engine[Peer(e)].stopping

(* The certificate shown is checked against the fingerprint of the         *)
(* description, which a proxy between the two may have put there.          *)
CertGood(e) == e \notin setting.forged

DtlsSecure(e) ==
    /\ Up(e, "recv") /\ DtlsCompletes(e) /\ CertGood(e)
    /\ engine' = [SwitchKeys(e, "dtls", DtlsPair) EXCEPT ![e].dtls = "none"]
    /\ UNCHANGED <<session, shown, video, lingers, air, stream, zvars>>

(* FingerprintMismatch: both tasks are told to stop.                       *)
DtlsMismatch(e) ==
    /\ Up(e, "recv") /\ DtlsCompletes(e) /\ ~CertGood(e)
    /\ engine' = [engine EXCEPT ![e].dtls = "none", ![e].stopping = TRUE]
    /\ UNCHANGED <<session, shown, video, lingers, air, stream, zvars>>

(* Failed: the call goes on in the clear.                                  *)
DtlsFails(e) ==
    /\ Up(e, "recv") /\ engine[e].dtls = "shaking"
    /\ engine' = [engine EXCEPT ![e].dtls = "none"]
    /\ UNCHANGED <<session, shown, video, lingers, air, stream, zvars>>

(* A handshake whose receive task is gone ends, and frees the port.        *)
DtlsEnds(e) ==
    /\ e \in lingers
    /\ lingers' = lingers \ {e}
    /\ UNCHANGED <<session, shown, engine, video, air, stream, zvars>>

(* A task sees that it is to stop.                                         *)
SeeStopRecv(e, task) ==    \* mutant: the send task has no stop_rx
    /\ Up(e, task) /\ engine[e].stopping /\ task = "recv"
    /\ engine' = [engine EXCEPT ![e].tasks = @ \ {task}]
    /\ UNCHANGED <<session, shown, video, lingers, air, stream, zvars>>
SeeStop(e, task) ==
    /\ Up(e, task) /\ engine[e].stopping
    /\ engine' = [engine EXCEPT ![e].tasks = @ \ {task}]
    /\ UNCHANGED <<session, shown, video, lingers, air, stream, zvars>>

(* The send task takes its new key.                                        *)
TakeKey(e) ==
    /\ Up(e, "send") /\ engine[e].queued # PlainKey
    /\ engine' = [engine EXCEPT ![e].sendKey = engine[e].queued, ![e].queued = PlainKey]
    /\ UNCHANGED <<session, shown, video, lingers, air, stream, zvars>>

-----------------------------------------------------------------------------
(* Voice.                                                                  *)

(* Whether what an end sends comes to the socket the other has.            *)
Reaches(e, leg) ==
    LET mine == call[e][leg]
        section == sdp[Peer(e)][IF leg = "audio" THEN 1 ELSE 2]
    IN  mine.host = section.host /\ mine.port = section.port

(* VoiceActivityDetector is there when the other signalled comfort noise,  *)
(* but never with Opus.  The second leg of an engine sends and receives    *)
(* without it, whatever was signalled.                                     *)
ComfortNoise(e) == call[e].cn /\ call[e].codec # "opus"
ComfortNoiseLeg(e) == ComfortNoise(e) /\ engine[e].leg = 1

SendFrame(e, what) ==
    /\ Up(e, "send") /\ Reaches(e, "audio")
    /\ air = NoFrame
    /\ what = "noise" => ComfortNoiseLeg(e)
    /\ air' = [to |-> Peer(e), key |-> engine[e].sendKey, what |-> what,
               codec |-> call[e].codec]
    /\ UNCHANGED <<session, shown, engine, video, lingers, stream, zvars>>

(* What recv_loop makes of a packet: with a key it decrypts or drops, with *)
(* none it takes everything for RTP.                                       *)
Decoded(e, f) ==
    LET key == engine[e].recvKey
    IN  CASE key # PlainKey /\ key # f.key -> "dropped"
          [] key = PlainKey /\ f.key # PlainKey -> "noise"
          [] key = f.key /\ f.what = "noise" -> IF ComfortNoiseLeg(e) THEN "quiet" ELSE "noise"
          [] key = f.key /\ f.what = "voice" -> IF f.codec = call[e].codec THEN "voice" ELSE "noise"

(* The frame comes to an engine or to none; what the far end says next is  *)
(* not altered by what was heard.                                          *)
ReceiveFrame(e) ==
    /\ air.to = e
    /\ air' = NoFrame
    /\ UNCHANGED <<session, shown, engine, video, lingers, stream, zvars>>

-----------------------------------------------------------------------------
(* Video.                                                                  *)

(* The camera, if there is one, gives so many frames, of so many parts.    *)
FilmFrame ==
    /\ "caller" \in video /\ camera.filmed < Len(setting.film)
    /\ Reaches("caller", "video")
    /\ Film(setting.film[camera.filmed + 1])
    /\ UNCHANGED <<session, shown, engine, video, lingers, air, zvars>>

ShowVideo ==
    /\ "callee" \in video
    /\ call["callee"].video.recvKey = call["caller"].video.sendKey
    /\ Stall \/ \E p \in packets : Arrive(p)
    /\ UNCHANGED <<session, shown, engine, video, lingers, air, zvars>>

LosePacket ==
    /\ \E p \in packets : Drop(p)
    /\ UNCHANGED <<session, shown, engine, video, lingers, air, zvars>>

-----------------------------------------------------------------------------
Init ==
    /\ setting \in Scenarios
    /\ sdp = [e \in Ends |-> NoSdp]
    /\ call = [e \in Ends |-> NoCall]
    /\ shown = [e \in Ends |-> "none"]
    /\ engine = [e \in Ends |-> NoEngineAt(0)]
    /\ video = {}
    /\ lingers = {}
    /\ air = NoFrame
    /\ VInit
    /\ ZInit

Client(e) == StartMedia(e) \/ Hold(e) \/ Resume(e) \/ Merge(e) \/ HangUp(e)

Dtls(e) == DtlsSecure(e) \/ DtlsMismatch(e) \/ DtlsFails(e) \/ DtlsEnds(e)

Next ==
    \/ MakeOffer \/ MakeAnswer \/ ReadAnswer
    \/ \E e \in Ends : Client(e)
    \/ \E e \in Ends : ZrtpStep(e)
    \/ LoseZrtp
    \/ \E e \in Ends : Dtls(e)
    \/ \E e \in Ends : TakeKey(e) \/ \E task \in {"send", "recv"} : SeeStop(e, task)
    \/ \E e \in Ends : ReceiveFrame(e) \/ \E what \in {"voice", "noise"} : SendFrame(e, what)
    \/ FilmFrame \/ ShowVideo \/ LosePacket

(* The tasks are scheduled; the network may lose what it likes, and nobody *)
(* has to do anything with the call.                                       *)
Fairness ==
    \A e \in Ends :
        /\ WF_vars(ZrtpStep(e))
        /\ \A task \in {"send", "recv"} : WF_vars(SeeStop(e, task))

Spec == Init /\ [][Next]_vars /\ Fairness

-----------------------------------------------------------------------------
(* Properties *)

Keys ==
    {PlainKey} \cup {SdesKey(e, leg) : e \in Ends, leg \in Legs}
    \cup {KeyOf(kind, e, pair) : kind \in {"zrtp", "dtls"}, e \in Ends,
                                pair \in (0..MaxStarts) \X (0..MaxStarts)}

(* The values the state may have; what handshake and engine of an end are  *)
(* made of goes together: a ZRTP engine lives in a receive task.           *)
TypeOK ==
    /\ ZTypeOK /\ VTypeOK
    /\ setting \in Scenarios
    /\ shown \in [Ends -> {"none", "connecting", "active", "held", "conference", "ended"}]
    /\ \A e \in Ends :
           /\ engine[e].id \in 0..MaxStarts
           /\ engine[e].tasks \subseteq {"send", "recv"}
           /\ {engine[e].sendKey, engine[e].recvKey, engine[e].queued} \subseteq Keys
           /\ engine[e].dtls \in {"none", "shaking"}
           /\ Running(e) => Up(e, "recv") /\ account(e).keying = "zrtp"
           /\ engine[e].tasks # {} => shown[e] \in {"active", "conference"}
    /\ video \subseteq {e \in Ends : engine[e].id > 0}
    /\ lingers \subseteq Ends

Connected == \A e \in Ends : call[e] # NoCall

(* Two ends that both consider the call connected have agreed: on one      *)
(* codec that both allow, on SDES keys each the mirror of the other's or   *)
(* on none, on opposite DTLS roles or on no DTLS, and on video or none     *)
(* (accept_call chooses, handle_connected has to come to the same).        *)
OfferAnswerAgree ==
    Connected =>
        LET a == call["caller"]
            b == call["callee"]
            Mirrored(x, y) == x.sendKey = y.recvKey /\ x.recvKey = y.sendKey
        IN  /\ a.codec = b.codec
            /\ \A e \in Ends : Contains(account_codecs(account(e)), a.codec)
            /\ Mirrored(a.audio, b.audio) /\ Mirrored(a.video, b.video)
            /\ {a.role, b.role} \in {{NoSetup}, {"active", "passive"}}
            /\ a.video = NoLeg <=> b.video = NoLeg

(* With no keys, or with those of SDES, a frame on its way will be heard   *)
(* as what it is by whatever engine is there to receive it, across holds,  *)
(* resumes and conferences of either end on its own.  Comfort noise apart: *)
(* it is taken for speech by an end that was not signalled it, and by the  *)
(* second leg of a conference, which never knows its payload type          *)
(* (media.rs start_media, engine.rs:459, tasks.rs recv_loop).              *)
Keyed(e) == account(e).keying \in {"zrtp", "dtls"}
SameVad == account("caller").vad = account("callee").vad
Intelligible ==
    ~Keyed("caller") /\ ~Keyed("callee") =>
        \A e \in Ends : air.to = e /\ Up(e, "recv") =>
            /\ air.what = "voice" => Decoded(e, air) = "voice"
            /\ air.what = "noise" /\ SameVad /\ engine[e].leg = 1 => Decoded(e, air) = "quiet"

(* Keys of one ZRTP or DTLS handshake are used crosswise: an end decrypts  *)
(* with the key the other encrypts with, whichever switched first          *)
(* (handle_zrtp_outcomes and handle_dtls_outcome map roles to keys).       *)
SecurePaired ==
    \A e \in Ends :
        LET mine == engine[e].recvKey
            theirs == engine[Peer(e)].sendKey
        IN  mine.kind \in {"zrtp", "dtls"} /\ theirs.kind = mine.kind
                /\ theirs.session = mine.session
            => mine = theirs

(* docs of MediaEngine::stop: its tasks have really finished.  So an engine *)
(* started after it gets its port, and a call that is shown as active has  *)
(* audio; unless a DTLS handshake was cut short, or ended in a mismatch.   *)
RestartsBind ==
    \A e \in Ends :
        shown[e] \in {"active", "conference"} /\ call[e].role = NoSetup
            => engine[e].tasks = {"send", "recv"}

(* tasks.rs:169-172: a fingerprint that does not match tears the media     *)
(* down instead of going on in the clear.  So both loops of that engine    *)
(* come to an end, unless the client has replaced it by then.              *)
MismatchSilences ==
    \A e \in Ends : []<>(engine[e].stopping => engine[e].tasks = {})

=============================================================================
