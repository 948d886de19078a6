----------------------------- MODULE Negotiation -----------------------------
(***************************************************************************)
(* What the two ends of a call make of their settings: the offer, the      *)
(* answer to it, and the media each end takes from the other's             *)
(* description.  Everything here is a function of its arguments; what a    *)
(* server or a socket decides is one of them, `luck`.                      *)
(*                                                                         *)
(* A description is the sequence of its media sections, audio first.  The  *)
(* audio of a description is parsed from all its lines, whatever section   *)
(* they stand in; the video from the lines of its own section.             *)
(***************************************************************************)
EXTENDS Integers, Sequences, SequencesExt

Legs == {"audio", "video"}

AllCodecs == <<"opus", "g722", "pcmu", "pcma", "gsm", "ilbc", "g729", "l16">>

(* `codecs` is codec_order as far as its names are known.  `keying` is     *)
(* MediaEncryption, with MatchTransport resolved.                          *)
Account ==
    [codecs: Seq({AllCodecs[i] : i \in DOMAIN AllCodecs}), forced: STRING,
     keying: {"none", "sdes", "zrtp", "dtls"}, vad: BOOLEAN, video: BOOLEAN,
     ice: BOOLEAN, turn: BOOLEAN]

account_codecs(a) == IF a.codecs = <<>> THEN AllCodecs ELSE a.codecs

(* The legs a TURN server gave a relay for, and those ICE would gather     *)
(* candidates for.                                                         *)
(* `video`: a port was found for the video; `cert`: a certificate was made.*)
Luck(a) ==
    [relays: SUBSET (IF a.turn THEN Legs ELSE {}), ice: SUBSET (IF a.ice THEN Legs ELSE {}),
     video: IF a.video THEN BOOLEAN ELSE {FALSE},
     cert: IF a.keying = "dtls" THEN BOOLEAN ELSE {FALSE}]

(* A key, and whose outgoing media it is for.                              *)
PlainKey == [kind |-> "plain", of |-> "nobody", session |-> <<0, 0>>]
KeyOf(kind, e, session) == [kind |-> kind, of |-> e, session |-> session]
SdesKinds == [audio |-> "sdes-audio", video |-> "sdes-video"]
SdesKey(e, leg) == KeyOf(SdesKinds[leg], e, <<0, 0>>)

NoIce   == <<"nobody", "none">>
NoCert  == "nobody"
NoSetup == "none"

-----------------------------------------------------------------------------
(* A media section: the address of c= and the port of m=, the codecs, and  *)
(* the attributes of comfort noise, SDES, DTLS and ICE.                     *)
Section(e, leg, codecs, cn, a, luck, ice, setup) ==
    LET dtls == setup # NoSetup
    IN  [host |-> <<e, IF leg \in luck.relays THEN "relay" ELSE "direct">>,
         port |-> <<e, leg>>,
         codecs |-> codecs,
         cn |-> cn,
         crypto |-> IF a.keying = "sdes" THEN SdesKey(e, leg) ELSE PlainKey,
         cert |-> IF dtls THEN e ELSE NoCert,
         setup |-> setup,
         ice |-> IF leg \in ice THEN <<e, leg>> ELSE NoIce]

(* initiate_call and prepare_video_offer: c= and m= are of the socket or   *)
(* the relay even with candidates beside them.                             *)
Offer(e, a, luck) ==
    LET codecs == account_codecs(a)
        setup == IF luck.cert THEN "actpass" ELSE NoSetup
        cn == a.vad /\ \E i \in DOMAIN codecs : codecs[i] # "opus"
        audio == Section(e, "audio", codecs, cn, a, luck, luck.ice, setup)
        video == Section(e, "video", <<"h264">>, FALSE, a, luck, luck.ice, setup)
    IN  IF luck.video THEN <<audio, video>> ELSE <<audio>>

-----------------------------------------------------------------------------
(* Reading a description.                                                  *)

(* The codec forced for incoming calls if it is offered, or the first of   *)
(* the other's that is allowed.                                            *)
PickCodec(offered, allowed, forced) ==
    LET first == SelectInSeq(offered, LAMBDA c : Contains(allowed, c))
    IN  CASE Contains(offered, forced) /\ Contains(allowed, forced) -> forced
          [] ~(Contains(offered, forced) /\ Contains(allowed, forced)) /\ first # 0 ->
                 offered[first]
          [] OTHER -> "none"

(* parse_sdp_forcing.  The port, and the payload types the codec is chosen *)
(* from, are of the m=audio line; c=, ice-ufrag and ice-pwd are the last   *)
(* of the whole description, crypto, fingerprint and setup the first.      *)
ParseAudio(sdp, allowed, forced) ==
    LET crypto == SelectInSeq(sdp, LAMBDA s : s.crypto # PlainKey)
        dtls == SelectInSeq(sdp, LAMBDA s : s.cert # NoCert)
        ice == SelectLastInSeq(sdp, LAMBDA s : s.ice # NoIce)
    IN  [host |-> Last(sdp).host,
         port |-> sdp[1].port,
         codec |-> PickCodec(sdp[1].codecs, allowed, forced),
         cn |-> sdp[1].cn,
         crypto |-> IF crypto = 0 THEN PlainKey ELSE sdp[crypto].crypto,
         cert |-> IF dtls = 0 THEN NoCert ELSE sdp[dtls].cert,
         setup |-> IF dtls = 0 THEN NoSetup ELSE sdp[dtls].setup,
         ice |-> IF ice = 0 THEN NoIce ELSE sdp[ice].ice]

(* split_media_sections and parse_video_section.                           *)
ParseVideo(sdp) == sdp[2]
HasVideo(sdp) == Len(sdp) = 2

(* The role of the end that answers, and of the one that offered.          *)
resolve_answerer_dtls_role(setup) == IF setup = "active" THEN "passive" ELSE "active"
EchoRole(setup) == setup    \* mutant: the answerer's role, not the complement
resolve_offerer_dtls_role(setup) ==
    CASE setup = "active" -> "passive"
      [] setup = "passive" -> "active"
      [] OTHER -> NoSetup

-----------------------------------------------------------------------------
(* The media of a call.                                                    *)

NoLeg == [host |-> <<"nobody", "none">>, port |-> <<"nobody", "none">>,
          sendKey |-> PlainKey, recvKey |-> PlainKey]

(* resolve_srtp_and_relay: SDES needs a key of each end.                   *)
LegOwnKey(mine, theirs) ==    \* mutant: encrypts with a key that was not answered
    [host |-> theirs.host, port |-> theirs.port,
     sendKey |-> mine.crypto,
     recvKey |-> IF mine.crypto # PlainKey THEN theirs.crypto ELSE PlainKey]
Leg(mine, theirs) ==
    LET both == mine.crypto # PlainKey /\ theirs.crypto # PlainKey
    IN  [host |-> theirs.host, port |-> theirs.port,
         sendKey |-> IF both THEN mine.crypto ELSE PlainKey,
         recvKey |-> IF both THEN theirs.crypto ELSE PlainKey]

NoCall == [codec |-> "none", cn |-> FALSE, audio |-> NoLeg, video |-> NoLeg,
           role |-> NoSetup, cert |-> NoCert]

(* accept_call and prepare_video_answer: the answer, and what the end that *)
(* answers has from then on.  With no codec in common there is none.       *)
AnswerAudio(a, offer) == ParseAudio(offer, account_codecs(a), a.forced)
CanAnswer(a, offer) == AnswerAudio(a, offer).codec # "none"

(* Whether accept_call gets as far as its answer.  For a leg that the      *)
(* offer, as it is parsed, has candidates of, and that has candidates of   *)
(* its own, it first awaits the checks; to these the offerer has nothing   *)
(* to say before it has read the answer, and connect (ice.rs) has no       *)
(* timeout.  So the answers there are have no ICE in them, and no call     *)
(* between two DeeLip ends comes to have a connection of ICE.              *)
AwaitsNoChecks(a, luck, offer) ==
    /\ "audio" \in luck.ice => AnswerAudio(a, offer).ice = NoIce
    /\ "video" \in luck.ice /\ luck.video /\ HasVideo(offer) => ParseVideo(offer).ice = NoIce

Answer(e, a, luck, offer) ==
    LET them == AnswerAudio(a, offer)
        videoToo == luck.video /\ HasVideo(offer)
        setup == IF luck.cert /\ them.cert # NoCert
                 THEN resolve_answerer_dtls_role(them.setup) ELSE NoSetup
        cn == a.vad /\ them.codec # "opus"
        audio == Section(e, "audio", <<them.codec>>, cn, a, luck, {}, setup)
        video == Section(e, "video", <<"h264">>, FALSE, a, luck, {}, setup)
    IN  [sdp |-> IF videoToo THEN <<audio, video>> ELSE <<audio>>,
         call |-> [codec |-> them.codec, cn |-> them.cn,
                   audio |-> Leg(audio, them),
                   video |-> IF videoToo THEN Leg(video, ParseVideo(offer)) ELSE NoLeg,
                   role |-> setup,
                   cert |-> IF setup = NoSetup THEN NoCert ELSE them.cert]]

(* handle_connected and on_outgoing_connected: what the end that offered   *)
(* has once it reads the answer, in which there is no ICE to connect to.   *)
Conclude(a, offer, answer) ==
    LET them == ParseAudio(answer, account_codecs(a), "none")
        role == IF offer[1].cert = NoCert \/ them.cert = NoCert
                THEN NoSetup ELSE resolve_offerer_dtls_role(them.setup)
    IN  [codec |-> them.codec, cn |-> them.cn,
         audio |-> Leg(offer[1], them),
         video |-> IF HasVideo(offer) /\ HasVideo(answer)
                   THEN Leg(offer[2], ParseVideo(answer)) ELSE NoLeg,
         role |-> role,
         cert |-> IF role = NoSetup THEN NoCert ELSE them.cert]

=============================================================================
