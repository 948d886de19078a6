---------------------------- MODULE MediaProofs -----------------------------
(***************************************************************************)
(* Proofs about the media of a call, for all settings of the accounts and  *)
(* any number of holds, resumes and conferences.  The session makes, steps *)
(* and drops ZRTP engines only as the module Zrtp allows, so that what is  *)
(* proved of the handshake alone holds in the session.  What the two ends  *)
(* settle on follows from what each makes of the other's description, and  *)
(* from it, and from what each engine is started with, what they hear.     *)
(***************************************************************************)
EXTENDS MediaSession, ZrtpProofs, WellFoundedInduction

(* A step of the client, of a task or of the network is one of the         *)
(* handshake or leaves it alone.                                           *)
LEMMA StopsZrtp == \A e \in Ends : StopZrtp(e) => [ZNext]_zvars
BY DEF StopZrtp, ZNext, zvars

LEMMA StartsZrtp == \A e \in Ends : Started(e) => [ZNext]_zvars
BY DEF Started, ZNext, zvars

LEMMA ClientStep == \A e \in Ends : Client(e) => [ZNext]_zvars
<1> SUFFICES ASSUME NEW e \in Ends, Client(e) PROVE [ZNext]_zvars
  OBVIOUS
<1>1. CASE StartMedia(e)
  BY <1>1, StartsZrtp DEF StartMedia
<1>2. CASE Hold(e)
  BY <1>2, StopsZrtp DEF Hold
<1>3. CASE Resume(e)
  BY <1>3, StartsZrtp DEF Resume
<1>4. CASE Merge(e)
  BY <1>4, StopsZrtp DEF Merge
<1>5. CASE HangUp(e)
  BY <1>5, StopsZrtp DEF HangUp
<1> QED
  BY <1>1, <1>2, <1>3, <1>4, <1>5 DEF Client

LEMMA SessionStep == [Next]_vars => [ZNext]_zvars
<1> SUFFICES ASSUME [Next]_vars PROVE [ZNext]_zvars
  OBVIOUS
<1>1. CASE MakeOffer \/ MakeAnswer \/ ReadAnswer
  BY <1>1 DEF MakeOffer, MakeAnswer, ReadAnswer
<1>2. CASE \E e \in Ends : Client(e)
  BY <1>2, ClientStep
<1>3. CASE \E e \in Ends : ZrtpStep(e)
  BY <1>3 DEF ZrtpStep, ZNext
<1>4. CASE LoseZrtp
  BY <1>4 DEF LoseZrtp, ZNext
<1>5. CASE \E e \in Ends : Dtls(e)
  BY <1>5 DEF Dtls, DtlsSecure, DtlsMismatch, DtlsFails, DtlsEnds
<1>6. CASE \E e \in Ends : TakeKey(e) \/ \E task \in {"send", "recv"} : SeeStop(e, task)
  BY <1>6 DEF TakeKey, SeeStop
<1>7. CASE \E e \in Ends : ReceiveFrame(e) \/ \E what \in {"voice", "noise"} : SendFrame(e, what)
  BY <1>7 DEF ReceiveFrame, SendFrame
<1>8. CASE UNCHANGED vars
  BY <1>8 DEF vars
<1>9. CASE FilmFrame \/ ShowVideo \/ LosePacket
  BY <1>9 DEF FilmFrame, ShowVideo, LosePacket
<1> QED
  BY <1>1, <1>2, <1>3, <1>4, <1>5, <1>6, <1>7, <1>8, <1>9 DEF Next

(* The media session implements the handshake: `ZrtpRuntime` is driven by  *)
(* the engines of a session (start, recv_loop, stop) as Zrtp allows.       *)
THEOREM SessionRunsZrtp == Spec => ZSpec
<1>1. Init => ZInit
  BY DEF Init
<1> QED
  BY <1>1, SessionStep, PTL DEF Spec, ZSpec

(* So the keys agree in every session,                                     *)
THEOREM SessionKeysAgree == Spec => []KeysAgree
BY SessionRunsZrtp, KeysOfAHandshakeAgree, PTL

(* and nobody is secure alone.                                             *)
THEOREM SessionNobodySecureAlone == Spec => []SecureIsShared
BY SessionRunsZrtp, NobodyIsSecureAlone, PTL

-----------------------------------------------------------------------------
(* What is chosen of a description, and what is read from it.              *)

(* The least of a set of numbers is one of them.                           *)
LEMMA LeastOf == ASSUME NEW I \in SUBSET Nat, I # {} PROVE Min(I) \in I /\ \A y \in I : Min(I) <= y
<1>1. \E x \in I : \A y \in I : ~ (<<y, x>> \in OpToRel(<, Nat))
  <2> DEFINE R == OpToRel(<, Nat)
  <2>1. IsWellFoundedOn(R, Nat)
    BY NatLessThanWellFounded, Zenon
  <2> HIDE DEF R
  <2>2. \E x \in I : \A y \in I : ~ (<<y, x>> \in R)
    BY <2>1, WFMin, Zenon
  <2> QED
    BY <2>2 DEF R
<1>2. PICK x \in I : \A y \in I : ~ (<<y, x>> \in OpToRel(<, Nat))
  BY <1>1
<1>3. \A y \in I : ~ (y < x)
  BY <1>2 DEF OpToRel
<1>4. \A y \in I : x <= y
  BY <1>3
<1> QED
  BY <1>4 DEF Min

(* What is chosen is offered, and allowed.                                 *)
LEMMA Chosen ==
  ASSUME NEW offered, NEW allowed, NEW forced, Len(offered) \in Nat,
         NEW c, c = PickCodec(offered, allowed, forced), c # "none"
  PROVE  Contains(offered, c) /\ Contains(allowed, c)
<1> DEFINE I == {i \in 1..Len(offered) : Contains(allowed, offered[i])}
           first == IF I # {} THEN Min(I) ELSE 0
           both == Contains(offered, forced) /\ Contains(allowed, forced)
<1>1. c = CASE both -> forced [] ~both /\ first # 0 -> offered[first] [] OTHER -> "none"
  BY DEF PickCodec, SelectInSeq
<1>2. CASE both
  BY <1>1, <1>2
<1>3. CASE ~both
  <2>1. I # {} /\ c = offered[Min(I)]
    BY <1>1, <1>3
  <2>2. Min(I) \in I
    BY <2>1, LeastOf
  <2> QED
    BY <2>1, <2>2 DEF Contains
<1> QED
  BY <1>2, <1>3

(* An answer has one codec: the end that offered it takes it.              *)
LEMMA ChosenAgain ==
  ASSUME NEW c, NEW allowed, c # "none", Contains(allowed, c)
  PROVE  PickCodec(<<c>>, allowed, "none") = c
<1> DEFINE I == {i \in 1..Len(<<c>>) : Contains(allowed, <<c>>[i])}
           first == IF I # {} THEN Min(I) ELSE 0
           both == Contains(<<c>>, "none") /\ Contains(allowed, "none")
<1>1. PickCodec(<<c>>, allowed, "none") =
        CASE both -> "none" [] ~both /\ first # 0 -> <<c>>[first] [] OTHER -> "none"
  BY DEF PickCodec, SelectInSeq
<1>2. ~both
  BY DEF Contains
<1>3. I = {1}
  OBVIOUS
<1>4. first = 1
  <2>1. Min(I) \in I
    BY <1>3, LeastOf
  <2> QED
    BY <2>1, <1>3
<1> QED
  BY <1>1, <1>2, <1>4

(* SDES keys tell end and leg apart, and are none of the plain key.        *)
LEMMA SdesKeys ==
  \A e, leg : leg \in Legs => SdesKey(e, leg).kind \notin {"plain", "zrtp", "dtls"} /\ SdesKey(e, leg) # PlainKey
BY DEF SdesKey, SdesKinds, KeyOf, PlainKey, Legs

LegAt(i) == IF i = 1 THEN "audio" ELSE "video"

(* The key an end describes for a leg.                                     *)
Declared(crypto, e, name, keying) ==
    crypto = IF keying = "sdes" THEN SdesKey(e, name) ELSE PlainKey

(* A description of end e: one section or two, alike in all that is not of *)
(* a leg.                                                                  *)
Describes(s, e, keying) ==
    /\ Len(s) \in {1, 2}
    /\ \A i \in 1..Len(s) :
           /\ Declared(s[i].crypto, e, LegAt(i), keying)
           /\ s[i].setup = s[1].setup
           /\ s[i].cert = IF s[1].setup = NoSetup THEN NoCert ELSE e
           /\ s[i].host[1] = e

(* What parse_sdp_forcing takes from a description of one end: whichever   *)
(* section a line is read from, it says the same of that end.              *)
LEMMA Parsed ==
  ASSUME NEW s, NEW e \in Ends, NEW keying, Describes(s, e, keying),
         NEW allowed, NEW forced, NEW p, p = ParseAudio(s, allowed, forced)
  PROVE  /\ p.codec = PickCodec(s[1].codecs, allowed, forced)
         /\ p.cn = s[1].cn /\ p.crypto = s[1].crypto
         /\ p.cert = s[1].cert /\ p.setup = s[1].setup
         /\ p.host[1] = e
<1> DEFINE C == {i \in 1..Len(s) : s[i].crypto # PlainKey}
           D == {i \in 1..Len(s) : s[i].cert # NoCert}
           crypto == IF C # {} THEN Min(C) ELSE 0
           dtls == IF D # {} THEN Min(D) ELSE 0
<1>1. /\ p.codec = PickCodec(s[1].codecs, allowed, forced)
      /\ p.cn = s[1].cn
      /\ p.host = Last(s).host
      /\ p.crypto = IF crypto = 0 THEN PlainKey ELSE s[crypto].crypto
      /\ p.cert = IF dtls = 0 THEN NoCert ELSE s[dtls].cert
      /\ p.setup = IF dtls = 0 THEN NoSetup ELSE s[dtls].setup
  BY DEF ParseAudio, SelectInSeq
<1>2. Len(s) \in {1, 2} /\ 1 \in 1..Len(s)
  BY DEF Describes
<1>3. C # {} => Min(C) \in C /\ \A y \in C : Min(C) <= y
  <2>1. C \in SUBSET Nat
    BY <1>2
  <2> QED
    BY <2>1, LeastOf
<1>4. D # {} => Min(D) \in D /\ \A y \in D : Min(D) <= y
  <2>1. D \in SUBSET Nat
    BY <1>2
  <2> QED
    BY <2>1, LeastOf
<1>5. p.crypto = s[1].crypto
  <2>1. CASE s[1].crypto = PlainKey
    <3>1. keying # "sdes"
      BY <2>1, <1>2, SdesKeys DEF Describes, LegAt, Legs, Declared
    <3>2. C = {}
      BY <3>1 DEF Describes, Declared
    <3> QED
      BY <3>2, <2>1, <1>1
  <2>2. CASE s[1].crypto # PlainKey
    <3>1. 1 \in C
      BY <2>2, <1>2
    <3>2. crypto = 1
      BY <3>1, <1>3, <1>2
    <3> QED
      BY <3>2, <1>1
  <2> QED
    BY <2>1, <2>2
<1>6. p.cert = s[1].cert /\ p.setup = s[1].setup
  <2>1. CASE s[1].setup = NoSetup
    <3>1. D = {}
      BY <2>1, <1>2 DEF Describes
    <3> QED
      BY <3>1, <2>1, <1>1, <1>2 DEF Describes
  <2>2. CASE s[1].setup # NoSetup
    <3>1. 1 \in D
      BY <2>2, <1>2 DEF Describes, NoCert, Ends
    <3>2. dtls = 1
      BY <3>1, <1>4, <1>2
    <3> QED
      <4> HIDE DEF dtls
      <4> QED
        BY <3>2, <1>1
  <2> QED
    BY <2>1, <2>2
<1>7. p.host[1] = e
  BY <1>1, <1>2 DEF Last, Describes
<1> QED
  BY <1>1, <1>5, <1>6, <1>7

(* What an offer says.                                                     *)
LEMMA Offered ==
  ASSUME NEW e, NEW a, NEW luck \in Luck(a), NEW s, s = Offer(e, a, luck)
  PROVE  /\ Describes(s, e, a.keying) /\ s # NoSdp
         /\ s[1].codecs = account_codecs(a)
         /\ s[1].cn = (a.vad /\ \E i \in DOMAIN account_codecs(a) : account_codecs(a)[i] # "opus")
         /\ s[1].setup \in {"actpass", NoSetup}
         /\ s[1].setup # NoSetup => a.keying = "dtls"
<1> DEFINE codecs == account_codecs(a)
           setup == IF luck.cert THEN "actpass" ELSE NoSetup
           cn == a.vad /\ \E i \in DOMAIN codecs : codecs[i] # "opus"
           sound == Section(e, "audio", codecs, cn, a, luck, luck.ice, setup)
           picture == Section(e, "video", <<"h264">>, FALSE, a, luck, luck.ice, setup)
<1>1. s = IF luck.video THEN <<sound, picture>> ELSE <<sound>>
  BY DEF Offer
<1>2. /\ Declared(sound.crypto, e, "audio", a.keying)
      /\ sound.setup = setup
      /\ sound.cert = IF setup = NoSetup THEN NoCert ELSE e
      /\ sound.host[1] = e
      /\ sound.codecs = codecs /\ sound.cn = cn
  BY DEF Section, Declared
<1>3. /\ Declared(picture.crypto, e, "video", a.keying)
      /\ picture.setup = setup
      /\ picture.cert = IF setup = NoSetup THEN NoCert ELSE e
      /\ picture.host[1] = e
  BY DEF Section, Declared
<1>4. luck.cert => a.keying = "dtls"
  BY DEF Luck
<1> HIDE DEF sound, picture, cn, codecs
<1>5. Describes(s, e, a.keying) /\ s # NoSdp /\ s[1] = sound
  <2>1. CASE luck.video
    <3>1. Len(s) = 2 /\ s[1] = sound /\ s[2] = picture
      BY <1>1, <2>1
    <3>2. s # NoSdp
      BY <3>1 DEF NoSdp
    <3>3. \A i \in 1..Len(s) : i = 1 \/ i = 2
      BY <3>1
    <3> HIDE DEF setup
    <3> QED
      BY <3>1, <3>2, <3>3, <1>2, <1>3 DEF Describes, LegAt
  <2>2. CASE ~luck.video
    <3>1. Len(s) = 1 /\ s[1] = sound
      BY <1>1, <2>2
    <3>2. s # NoSdp
      BY <3>1 DEF NoSdp
    <3>3. \A i \in 1..Len(s) : i = 1
      BY <3>1
    <3> HIDE DEF setup
    <3> QED
      BY <3>1, <3>2, <3>3, <1>2 DEF Describes, LegAt
  <2> QED
    BY <2>1, <2>2
<1>6. s[1].codecs = codecs /\ s[1].cn = cn
  BY <1>5, <1>2
<1>7. s[1].setup \in {"actpass", NoSetup} /\ (s[1].setup # NoSetup => a.keying = "dtls")
  BY <1>5, <1>2, <1>4
<1> QED
  BY <1>5, <1>6, <1>7 DEF cn, codecs

(* The keys of a leg at end e: each encrypts with the key it described,    *)
(* if both did.                                                            *)
OwnKeys(leg, e, name, sdes) ==
    /\ leg.sendKey = IF sdes THEN SdesKey(e, name) ELSE PlainKey
    /\ leg.recvKey = IF sdes THEN SdesKey(Peer(e), name) ELSE PlainKey

(* An end encrypts with the key it declared, if both did.                  *)
LEMMA LegKeys ==
  ASSUME NEW e \in Ends, NEW mine, NEW theirs, NEW name \in Legs,
         NEW k, Declared(mine.crypto, e, name, k),
         NEW l, Declared(theirs.crypto, Peer(e), name, l),
         theirs.host[1] = Peer(e),
         NEW leg, leg = Leg(mine, theirs)
  PROVE  OwnKeys(leg, e, name, k = "sdes" /\ l = "sdes") /\ leg # NoLeg
<1>1. leg.host[1] \in Ends
  BY PeerFacts DEF Leg
<1>2. leg # NoLeg
  BY <1>1 DEF NoLeg, Ends
<1>3. (mine.crypto # PlainKey) <=> (k = "sdes")
  BY SdesKeys DEF Declared
<1>4. (theirs.crypto # PlainKey) <=> (l = "sdes")
  BY SdesKeys DEF Declared
<1> QED
  BY <1>2, <1>3, <1>4 DEF OwnKeys, Leg, Declared

(* What an answer of end e to an offer says, and what e has of the call;   *)
(* `them` is what it read in the offer.                                    *)
AnswerSays(e, a, keying, offer, r, them) ==
    /\ Describes(r.sdp, e, a.keying) /\ r.sdp # NoSdp
    /\ r.sdp[1].codecs = <<them.codec>>
    /\ r.sdp[1].cn = (a.vad /\ them.codec # "opus")
    /\ r.sdp[1].setup # NoSetup =>
           /\ r.sdp[1].setup = resolve_answerer_dtls_role(offer[1].setup)
           /\ a.keying = "dtls" /\ offer[1].setup # NoSetup
    /\ Len(r.sdp) = 2 => Len(offer) = 2
    /\ r.call.codec = them.codec /\ r.call.cn = offer[1].cn
    /\ r.call.role = r.sdp[1].setup
    /\ OwnKeys(r.call.audio, e, "audio", a.keying = "sdes" /\ keying = "sdes")
    /\ Len(r.sdp) = 2 =>
           /\ OwnKeys(r.call.video, e, "video", a.keying = "sdes" /\ keying = "sdes")
           /\ r.call.video # NoLeg
    /\ Len(r.sdp) = 1 => r.call.video = NoLeg

(* What an answer says, and what the end that answers has of the call.     *)
LEMMA Answered ==
  ASSUME NEW e \in Ends, NEW a, NEW luck \in Luck(a), NEW k,
         NEW offer, Describes(offer, Peer(e), k),
         NEW r, r = Answer(e, a, luck, offer), NEW them, them = AnswerAudio(a, offer)
  PROVE  AnswerSays(e, a, k, offer, r, them)
<1> DEFINE videoToo == luck.video /\ HasVideo(offer)
           setup == IF luck.cert /\ them.cert # NoCert
                    THEN resolve_answerer_dtls_role(them.setup) ELSE NoSetup
           cn == a.vad /\ them.codec # "opus"
           sound == Section(e, "audio", <<them.codec>>, cn, a, luck, {}, setup)
           picture == Section(e, "video", <<"h264">>, FALSE, a, luck, {}, setup)
<1>1. /\ r.sdp = IF videoToo THEN <<sound, picture>> ELSE <<sound>>
      /\ r.call.codec = them.codec /\ r.call.cn = them.cn
      /\ r.call.role = setup
      /\ r.call.audio = Leg(sound, them)
      /\ r.call.video = IF videoToo THEN Leg(picture, offer[2]) ELSE NoLeg
  BY DEF Answer, ParseVideo
<1>2. /\ Declared(sound.crypto, e, "audio", a.keying)
      /\ sound.setup = setup
      /\ sound.cert = IF setup = NoSetup THEN NoCert ELSE e
      /\ sound.host[1] = e
      /\ sound.codecs = <<them.codec>> /\ sound.cn = cn
  <2> HIDE DEF setup, cn
  <2> QED
    BY DEF Section, Declared
<1>3. /\ Declared(picture.crypto, e, "video", a.keying)
      /\ picture.setup = setup
      /\ picture.cert = IF setup = NoSetup THEN NoCert ELSE e
      /\ picture.host[1] = e
  <2> HIDE DEF setup
  <2> QED
    BY DEF Section, Declared
<1>4. luck.cert => a.keying = "dtls"
  BY DEF Luck
<1>5. /\ them.cn = offer[1].cn /\ them.crypto = offer[1].crypto
      /\ them.cert = offer[1].cert /\ them.setup = offer[1].setup
      /\ them.host[1] = Peer(e)
  <2>1. Peer(e) \in Ends
    BY PeerFacts
  <2> DEFINE p == ParseAudio(offer, account_codecs(a), a.forced)
  <2>2. them = p
    BY DEF AnswerAudio
  <2>3. /\ p.cn = offer[1].cn /\ p.crypto = offer[1].crypto
        /\ p.cert = offer[1].cert /\ p.setup = offer[1].setup
        /\ p.host[1] = Peer(e)
    BY <2>1, Parsed
  <2> QED
    BY <2>2, <2>3
<1>6. /\ Len(offer) \in {1, 2}
      /\ Declared(offer[1].crypto, Peer(e), "audio", k)
      /\ offer[1].cert = IF offer[1].setup = NoSetup THEN NoCert ELSE Peer(e)
  BY DEF Describes, LegAt
<1>7. Len(offer) = 2 =>
          /\ Declared(offer[2].crypto, Peer(e), "video", k)
          /\ offer[2].host[1] = Peer(e)
  BY DEF Describes, LegAt
<1>8. setup # NoSetup =>
          /\ setup = resolve_answerer_dtls_role(offer[1].setup)
          /\ a.keying = "dtls" /\ offer[1].setup # NoSetup
  BY <1>4, <1>5, <1>6
<1>9. videoToo => Len(offer) = 2
  BY DEF HasVideo
<1> HIDE DEF sound, picture, setup, cn, videoToo
<1>10. OwnKeys(r.call.audio, e, "audio", a.keying = "sdes" /\ k = "sdes")
  <2>1. Declared(them.crypto, Peer(e), "audio", k)
    BY <1>5, <1>6
  <2>2. "audio" \in Legs
    BY DEF Legs
  <2> DEFINE leg == Leg(sound, them)
  <2>3. OwnKeys(leg, e, "audio", a.keying = "sdes" /\ k = "sdes")
    BY <1>2, <1>5, <2>1, <2>2, LegKeys
  <2> QED
    BY <1>1, <2>3
<1>11. videoToo =>
          /\ OwnKeys(r.call.video, e, "video", a.keying = "sdes" /\ k = "sdes")
          /\ r.call.video # NoLeg
  <2>1. "video" \in Legs
    BY DEF Legs
  <2> DEFINE leg == Leg(picture, offer[2])
  <2>2. ASSUME videoToo
        PROVE  OwnKeys(leg, e, "video", a.keying = "sdes" /\ k = "sdes") /\ leg # NoLeg
    <3> DEFINE theirs == offer[2]
    <3>1. Declared(theirs.crypto, Peer(e), "video", k) /\ theirs.host[1] = Peer(e)
      BY <1>7, <1>9, <2>2
    <3> HIDE DEF theirs
    <3>2. Declared(picture.crypto, e, "video", a.keying)
      BY <1>3
    <3> DEFINE l == Leg(picture, theirs)
    <3>3. OwnKeys(l, e, "video", a.keying = "sdes" /\ k = "sdes") /\ l # NoLeg
      BY <2>1, <3>1, <3>2, LegKeys
    <3> QED
      BY <3>3 DEF theirs
  <2> QED
    BY <1>1, <2>2
<1>12. CASE videoToo
  <2>1. Len(r.sdp) = 2 /\ r.sdp[1] = sound /\ r.sdp[2] = picture
    BY <1>1, <1>12
  <2>2. r.sdp # NoSdp
    BY <2>1 DEF NoSdp
  <2>3. \A i \in 1..Len(r.sdp) : i = 1 \/ i = 2
    BY <2>1
  <2>4. Describes(r.sdp, e, a.keying)
    BY <2>1, <2>3, <1>2, <1>3 DEF Describes, LegAt
  <2>5. r.sdp[1].codecs = <<them.codec>> /\ r.sdp[1].cn = cn /\ r.sdp[1].setup = setup
    BY <2>1, <1>2
  <2>6. Len(r.sdp) # 1
    BY <2>1
  <2> QED
    BY <1>1, <1>5, <1>8, <1>9, <1>10, <1>11, <1>12, <2>2, <2>4, <2>5, <2>6 DEF cn, AnswerSays
<1>13. CASE ~videoToo
  <2>1. Len(r.sdp) = 1 /\ r.sdp[1] = sound
    BY <1>1, <1>13
  <2>2. r.sdp # NoSdp
    BY <2>1 DEF NoSdp
  <2>3. \A i \in 1..Len(r.sdp) : i = 1
    BY <2>1
  <2>4. Describes(r.sdp, e, a.keying)
    BY <2>1, <2>3, <1>2 DEF Describes, LegAt
  <2>5. r.sdp[1].codecs = <<them.codec>> /\ r.sdp[1].cn = cn /\ r.sdp[1].setup = setup
    BY <2>1, <1>2
  <2>6. Len(r.sdp) # 2
    BY <2>1
  <2> QED
    BY <1>1, <1>5, <1>8, <1>10, <1>13, <2>2, <2>4, <2>5, <2>6 DEF cn, AnswerSays
<1> QED
  BY <1>12, <1>13

(* What the end that offered has of the answer.                            *)
LEMMA Concluded ==
  ASSUME NEW e \in Ends, NEW a, NEW k,
         NEW offer, Describes(offer, e, a.keying),
         NEW answer, Describes(answer, Peer(e), k), Len(answer) = 2 => Len(offer) = 2,
         NEW c, c = Conclude(a, offer, answer)
  PROVE  /\ c.codec = PickCodec(answer[1].codecs, account_codecs(a), "none")
         /\ c.cn = answer[1].cn
         /\ c.role = IF offer[1].setup = NoSetup \/ answer[1].setup = NoSetup
                     THEN NoSetup ELSE resolve_offerer_dtls_role(answer[1].setup)
         /\ OwnKeys(c.audio, e, "audio", a.keying = "sdes" /\ k = "sdes")
         /\ Len(answer) = 2 =>
                /\ OwnKeys(c.video, e, "video", a.keying = "sdes" /\ k = "sdes")
                /\ c.video # NoLeg
         /\ Len(answer) = 1 => c.video = NoLeg
<1> DEFINE them == ParseAudio(answer, account_codecs(a), "none")
           role == IF offer[1].cert = NoCert \/ them.cert = NoCert
                   THEN NoSetup ELSE resolve_offerer_dtls_role(them.setup)
<1>1. /\ c.codec = them.codec /\ c.cn = them.cn /\ c.role = role
      /\ c.audio = Leg(offer[1], them)
      /\ c.video = IF HasVideo(offer) /\ HasVideo(answer)
                   THEN Leg(offer[2], answer[2]) ELSE NoLeg
  BY DEF Conclude, ParseVideo
<1>2. /\ them.codec = PickCodec(answer[1].codecs, account_codecs(a), "none")
      /\ them.cn = answer[1].cn /\ them.crypto = answer[1].crypto
      /\ them.cert = answer[1].cert /\ them.setup = answer[1].setup
      /\ them.host[1] = Peer(e)
  <2>1. Peer(e) \in Ends
    BY PeerFacts
  <2> QED
    BY <2>1, Parsed
<1>3. /\ Len(answer) \in {1, 2} /\ Len(offer) \in {1, 2}
      /\ Declared(answer[1].crypto, Peer(e), "audio", k)
      /\ answer[1].cert = IF answer[1].setup = NoSetup THEN NoCert ELSE Peer(e)
      /\ Declared(offer[1].crypto, e, "audio", a.keying)
      /\ offer[1].cert = IF offer[1].setup = NoSetup THEN NoCert ELSE e
  BY DEF Describes, LegAt
<1>4. Len(answer) = 2 =>
          /\ Declared(answer[2].crypto, Peer(e), "video", k)
          /\ answer[2].host[1] = Peer(e)
          /\ Declared(offer[2].crypto, e, "video", a.keying)
  <2> SUFFICES ASSUME Len(answer) = 2
               PROVE  /\ Declared(answer[2].crypto, Peer(e), "video", k)
                      /\ answer[2].host[1] = Peer(e)
                      /\ Declared(offer[2].crypto, e, "video", a.keying)
    OBVIOUS
  <2>1. 2 \in 1..Len(answer) /\ 2 \in 1..Len(offer)
    OBVIOUS
  <2>2. LegAt(2) = "video"
    BY DEF LegAt
  <2> QED
    BY <2>1, <2>2 DEF Describes
<1> HIDE DEF them
<1>5. OwnKeys(c.audio, e, "audio", a.keying = "sdes" /\ k = "sdes")
  <2>1. "audio" \in Legs
    BY DEF Legs
  <2> QED
    BY <1>1, <1>2, <1>3, <2>1, LegKeys
<1>6. Len(answer) = 2 =>
          /\ OwnKeys(c.video, e, "video", a.keying = "sdes" /\ k = "sdes")
          /\ c.video # NoLeg
  <2> SUFFICES ASSUME Len(answer) = 2
               PROVE  /\ OwnKeys(c.video, e, "video", a.keying = "sdes" /\ k = "sdes")
                      /\ c.video # NoLeg
    OBVIOUS
  <2>1. "video" \in Legs
    BY DEF Legs
  <2> DEFINE mine == offer[2]
             theirs == answer[2]
  <2>2. c.video = Leg(mine, theirs)
    BY <1>1 DEF HasVideo
  <2>3. /\ Declared(mine.crypto, e, "video", a.keying)
        /\ Declared(theirs.crypto, Peer(e), "video", k) /\ theirs.host[1] = Peer(e)
    BY <1>4
  <2> HIDE DEF mine, theirs
  <2>4. OwnKeys(c.video, e, "video", a.keying = "sdes" /\ k = "sdes") /\ c.video # NoLeg
    BY <2>1, <2>2, <2>3, LegKeys
  <2> QED
    BY <2>4
<1>7. Len(answer) = 1 => c.video = NoLeg
  BY <1>1 DEF HasVideo
<1>8. c.role = IF offer[1].setup = NoSetup \/ answer[1].setup = NoSetup
               THEN NoSetup ELSE resolve_offerer_dtls_role(answer[1].setup)
  BY <1>1, <1>2, <1>3, PeerFacts DEF NoCert, Ends
<1> QED
  BY <1>1, <1>2, <1>5, <1>6, <1>7, <1>8

(* What an end has of the call once it is negotiated, as the two accounts  *)
(* and the answer have it: `a` is the caller's account, `b` the callee's.  *)
Side(e, c, answer, a, b) ==
    /\ c.codec = answer[1].codecs[1] /\ c.codec # "none"
    /\ Contains(account_codecs(a), c.codec) /\ Contains(account_codecs(b), c.codec)
    /\ c.codec # "opus" => c.cn = IF e = "caller" THEN b.vad ELSE a.vad
    /\ c.role = IF answer[1].setup = NoSetup THEN NoSetup
                ELSE IF e = "caller" THEN "passive" ELSE "active"
    /\ c.role # NoSetup => a.keying = "dtls" /\ b.keying = "dtls"
    /\ OwnKeys(c.audio, e, "audio", a.keying = "sdes" /\ b.keying = "sdes")
    /\ \/ /\ Len(answer) = 2 /\ c.video # NoLeg
          /\ OwnKeys(c.video, e, "video", a.keying = "sdes" /\ b.keying = "sdes")
       \/ Len(answer) = 1 /\ c.video = NoLeg

(* The two ends come to the same, from whatever offer the callee can       *)
(* answer.                                                                 *)
LEMMA SidesAgree ==
  ASSUME NEW a \in Account, NEW b \in Account,
         NEW luckA \in Luck(a), NEW offer, offer = Offer("caller", a, luckA),
         CanAnswer(b, offer),
         NEW luckB \in Luck(b), NEW r, r = Answer("callee", b, luckB, offer)
  PROVE  /\ r.sdp # NoSdp
         /\ Side("callee", r.call, r.sdp, a, b)
         /\ Side("caller", Conclude(a, offer, r.sdp), r.sdp, a, b)
<1> DEFINE them == AnswerAudio(b, offer)
           codec == them.codec
           sdes == a.keying = "sdes" /\ b.keying = "sdes"
<1>1. /\ Describes(offer, "caller", a.keying) /\ offer # NoSdp
      /\ offer[1].codecs = account_codecs(a)
      /\ offer[1].cn = (a.vad /\ \E i \in DOMAIN account_codecs(a) : account_codecs(a)[i] # "opus")
      /\ offer[1].setup \in {"actpass", NoSetup}
      /\ offer[1].setup # NoSetup => a.keying = "dtls"
  BY Offered
<1>2. "caller" \in Ends /\ "callee" \in Ends /\ Peer("callee") = "caller" /\ Peer("caller") = "callee"
  BY DEF Ends, Peer
<1>3. /\ Describes(r.sdp, "callee", b.keying) /\ r.sdp # NoSdp
      /\ r.sdp[1].codecs = <<codec>>
      /\ r.sdp[1].cn = (b.vad /\ codec # "opus")
      /\ r.sdp[1].setup # NoSetup =>
             /\ r.sdp[1].setup = resolve_answerer_dtls_role(offer[1].setup)
             /\ b.keying = "dtls" /\ offer[1].setup # NoSetup
      /\ Len(r.sdp) = 2 => Len(offer) = 2
      /\ r.call.codec = codec /\ r.call.cn = offer[1].cn
      /\ r.call.role = r.sdp[1].setup
      /\ OwnKeys(r.call.audio, "callee", "audio", b.keying = "sdes" /\ a.keying = "sdes")
      /\ Len(r.sdp) = 2 =>
             /\ OwnKeys(r.call.video, "callee", "video", b.keying = "sdes" /\ a.keying = "sdes")
             /\ r.call.video # NoLeg
      /\ Len(r.sdp) = 1 => r.call.video = NoLeg
  <2>1. Describes(offer, Peer("callee"), a.keying)
    BY <1>1, <1>2
  <2>2. them = AnswerAudio(b, offer)
    OBVIOUS
  <2> HIDE DEF them
  <2>3. AnswerSays("callee", b, a.keying, offer, r, them)
    BY <1>2, <2>1, <2>2, Answered
  <2> QED
    BY <2>3 DEF AnswerSays
<1>4. /\ Len(account_codecs(a)) \in Nat /\ DOMAIN account_codecs(a) = 1..Len(account_codecs(a))
      /\ a.vad \in BOOLEAN /\ b.vad \in BOOLEAN
  <2>1. a.codecs \in Seq({AllCodecs[i] : i \in DOMAIN AllCodecs})
    BY DEF Account
  <2>2. Len(AllCodecs) \in Nat /\ DOMAIN AllCodecs = 1..Len(AllCodecs)
    BY DEF AllCodecs
  <2>3. a.vad \in BOOLEAN /\ b.vad \in BOOLEAN
    BY DEF Account
  <2> QED
    BY <2>1, <2>2, <2>3 DEF account_codecs
<1>5. /\ codec # "none"
      /\ Contains(account_codecs(a), codec) /\ Contains(account_codecs(b), codec)
  <2>1. codec # "none"
    BY DEF CanAnswer
  <2>2. codec = PickCodec(offer[1].codecs, account_codecs(b), b.forced)
    BY <1>1, <1>2, Parsed DEF AnswerAudio
  <2>3. codec = PickCodec(account_codecs(a), account_codecs(b), b.forced)
    BY <2>2, <1>1
  <2> HIDE DEF them
  <2> QED
    BY <2>1, <2>3, <1>4, Chosen
<1> HIDE DEF them
<1>6. r.sdp[1].setup \in {"active", NoSetup}
  BY <1>1, <1>3 DEF resolve_answerer_dtls_role
<1>7. Len(r.sdp) \in {1, 2}
  BY <1>3 DEF Describes
<1>8. r.sdp[1].codecs[1] = codec
  BY <1>3
<1>9. Side("callee", r.call, r.sdp, a, b)
  <2>1. codec # "opus" => r.call.cn = a.vad
    <3>1. codec # "opus" => \E i \in DOMAIN account_codecs(a) : account_codecs(a)[i] # "opus"
      BY <1>4, <1>5 DEF Contains
    <3> QED
      BY <3>1, <1>1, <1>3, <1>4
  <2>2. r.call.role = IF r.sdp[1].setup = NoSetup THEN NoSetup ELSE "active"
    BY <1>3, <1>6
  <2>3. r.call.role # NoSetup => a.keying = "dtls" /\ b.keying = "dtls"
    BY <1>1, <1>3
  <2>4. OwnKeys(r.call.audio, "callee", "audio", sdes)
    BY <1>3 DEF OwnKeys
  <2>5. Len(r.sdp) = 2 => OwnKeys(r.call.video, "callee", "video", sdes)
    BY <1>3 DEF OwnKeys
  <2> QED
    BY <1>3, <1>5, <1>7, <1>8, <2>1, <2>2, <2>3, <2>4, <2>5 DEF Side
<1>10. ASSUME NEW c, c = Conclude(a, offer, r.sdp)
       PROVE  Side("caller", c, r.sdp, a, b)
  <2>1. /\ c.codec = PickCodec(r.sdp[1].codecs, account_codecs(a), "none")
        /\ c.cn = r.sdp[1].cn
        /\ c.role = IF offer[1].setup = NoSetup \/ r.sdp[1].setup = NoSetup
                    THEN NoSetup ELSE resolve_offerer_dtls_role(r.sdp[1].setup)
        /\ OwnKeys(c.audio, "caller", "audio", sdes)
        /\ Len(r.sdp) = 2 => OwnKeys(c.video, "caller", "video", sdes) /\ c.video # NoLeg
        /\ Len(r.sdp) = 1 => c.video = NoLeg
    <3> DEFINE answer == r.sdp
    <3>1. Describes(answer, Peer("caller"), b.keying) /\ (Len(answer) = 2 => Len(offer) = 2)
      BY <1>2, <1>3
    <3>2. c = Conclude(a, offer, answer)
      BY <1>10
    <3> HIDE DEF answer
    <3>3. /\ c.codec = PickCodec(answer[1].codecs, account_codecs(a), "none")
          /\ c.cn = answer[1].cn
          /\ c.role = IF offer[1].setup = NoSetup \/ answer[1].setup = NoSetup
                      THEN NoSetup ELSE resolve_offerer_dtls_role(answer[1].setup)
          /\ OwnKeys(c.audio, "caller", "audio", sdes)
          /\ Len(answer) = 2 => OwnKeys(c.video, "caller", "video", sdes) /\ c.video # NoLeg
          /\ Len(answer) = 1 => c.video = NoLeg
      BY <1>1, <1>2, <3>1, <3>2, Concluded
    <3> QED
      BY <3>3 DEF answer
  <2>2. c.codec = codec
    <3>1. PickCodec(<<codec>>, account_codecs(a), "none") = codec
      BY <1>5, ChosenAgain
    <3> QED
      BY <2>1, <1>3, <3>1
  <2>3. c.role = IF r.sdp[1].setup = NoSetup THEN NoSetup ELSE "passive"
    BY <2>1, <1>3, <1>6 DEF resolve_offerer_dtls_role
  <2>4. c.role # NoSetup => a.keying = "dtls" /\ b.keying = "dtls"
    BY <2>3, <1>1, <1>3
  <2>5. codec # "opus" => c.cn = b.vad
    BY <2>1, <1>3, <1>4
  <2> QED
    BY <1>5, <1>7, <1>8, <2>1, <2>2, <2>3, <2>4, <2>5 DEF Side
<1> QED
  BY <1>3, <1>9, <1>10

-----------------------------------------------------------------------------
(* The negotiation.                                                        *)

(* The negotiation goes forward only: each description and each end's view *)
(* of the call stay what they were made.                                   *)
Negotiated ==
    /\ setting \in Scenarios
    /\ DOMAIN sdp = Ends /\ DOMAIN call = Ends
    /\ shown \in [Ends -> {"none", "connecting", "active", "held", "conference", "ended"}]
    /\ sdp["caller"] # NoSdp =>
           \E luck \in Luck(account("caller")) :
               sdp["caller"] = Offer("caller", account("caller"), luck)
    /\ sdp["callee"] = NoSdp => call = [e \in Ends |-> NoCall] /\ shown["callee"] = "none"
    /\ sdp["callee"] # NoSdp =>
           /\ sdp["caller"] # NoSdp /\ CanAnswer(account("callee"), sdp["caller"])
           /\ \E luck \in Luck(account("callee")) :
                  LET answer == Answer("callee", account("callee"), luck, sdp["caller"])
                  IN  sdp["callee"] = answer.sdp /\ call["callee"] = answer.call
    /\ call["caller"] = NoCall => shown["caller"] = "none"
    /\ call["caller"] # NoCall =>
           call["caller"] = Conclude(account("caller"), sdp["caller"], sdp["callee"])

(* What the two ends have agreed on, as far as they know it.               *)
Settled(e) == Side(e, call[e], sdp["callee"], account("caller"), account("callee"))

(* The two ends.                                                           *)
LEMMA EndFacts ==
  /\ "caller" \in Ends /\ "callee" \in Ends /\ "caller" # "callee"
  /\ Peer("caller") = "callee" /\ Peer("callee") = "caller"
BY DEF Ends, Peer

(* The accounts of a scenario, and what its camera films.                  *)
LEMMA AccountType ==
  ASSUME setting \in Scenarios
  PROVE  /\ \A e \in Ends : account(e) \in Account
         /\ DOMAIN setting.film = 1..Len(setting.film)
         /\ \A n \in 1..Len(setting.film) : setting.film[n] \in Nat \ {0}
<1>1. setting \in [accounts: [Ends -> Account], forged: SUBSET Ends, film: Seq(Nat \ {0})]
  BY ScenariosAssumption
<1>2. setting.accounts \in [Ends -> Account] /\ setting.film \in Seq(Nat \ {0})
  BY <1>1
<1> QED
  BY <1>2 DEF account

(* So the ends have agreed, once they have a view of the call at all.      *)
LEMMA BothSettled ==
  ASSUME Negotiated
  PROVE  /\ sdp["callee"] # NoSdp => Settled("callee")
         /\ call["caller"] # NoCall => sdp["callee"] # NoSdp /\ Settled("caller")
<1>1. sdp["callee"] = NoSdp => call["caller"] = NoCall
  BY EndFacts DEF Negotiated
<1> SUFFICES ASSUME sdp["callee"] # NoSdp
             PROVE  Settled("callee") /\ (call["caller"] # NoCall => Settled("caller"))
  BY <1>1
<1> DEFINE a == account("caller")
           b == account("callee")
           offer == sdp["caller"]
<1>2. a \in Account /\ b \in Account
  BY AccountType, EndFacts DEF Negotiated
<1>3. PICK luckA \in Luck(a) : offer = Offer("caller", a, luckA)
  BY DEF Negotiated
<1>4. PICK luckB \in Luck(b) :
          /\ sdp["callee"] = Answer("callee", b, luckB, offer).sdp
          /\ call["callee"] = Answer("callee", b, luckB, offer).call
  BY DEF Negotiated
<1>5. CanAnswer(b, offer)
  BY DEF Negotiated
<1> HIDE DEF a, b, offer
<1> DEFINE r == Answer("callee", b, luckB, offer)
<1>6. /\ Side("callee", r.call, r.sdp, a, b)
      /\ Side("caller", Conclude(a, offer, r.sdp), r.sdp, a, b)
  BY <1>2, <1>3, <1>5, SidesAgree
<1>7. Settled("callee")
  BY <1>4, <1>6 DEF Settled, a, b
<1>8. ASSUME call["caller"] # NoCall
      PROVE  Settled("caller")
  <2>1. call["caller"] = Conclude(a, offer, sdp["callee"])
    BY <1>8 DEF Negotiated, a, offer
  <2>2. call["caller"] = Conclude(a, offer, r.sdp) /\ sdp["callee"] = r.sdp
    BY <2>1, <1>4
  <2> HIDE DEF r
  <2> QED
    BY <1>6, <2>2 DEF Settled, a, b
<1> QED
  BY <1>7, <1>8

(* What a client sees is a call it has a view of.                          *)
LEMMA ShownIsSettled ==
  ASSUME Negotiated, NEW e \in Ends, shown[e] # "none"
  PROVE  sdp["callee"] # NoSdp /\ Settled(e) /\ Settled("callee") /\ call[e] # NoCall
<1>1. CASE e = "callee"
  <2>1. sdp["callee"] # NoSdp
    BY <1>1 DEF Negotiated
  <2>2. Settled("callee")
    BY <2>1, BothSettled
  <2>3. call["callee"] # NoCall
    BY <2>2 DEF Settled, Side, NoCall
  <2> QED
    BY <1>1, <2>1, <2>2, <2>3
<1>2. CASE e = "caller"
  <2>1. call["caller"] # NoCall
    BY <1>2 DEF Negotiated
  <2> QED
    BY <1>2, <2>1, BothSettled
<1> QED
  BY <1>1, <1>2 DEF Ends

(* An offer is made once,                                                  *)
LEMMA OfferStep == ASSUME Negotiated, MakeOffer PROVE Negotiated'
<1>1. PICK luck \in Luck(account("caller")) :
          sdp' = [sdp EXCEPT !["caller"] = Offer("caller", account("caller"), luck)]
  BY DEF MakeOffer
<1>2. /\ sdp["caller"] = NoSdp
      /\ setting' = setting /\ call' = call /\ shown' = shown
  BY DEF MakeOffer
<1>3. sdp'["caller"] = Offer("caller", account("caller"), luck) /\ sdp'["callee"] = sdp["callee"]
  BY <1>1, EndFacts DEF Negotiated
<1>4. sdp["callee"] = NoSdp /\ call["caller"] = NoCall
  BY <1>2, EndFacts DEF Negotiated
<1>5. account("caller")' = account("caller") /\ account("callee")' = account("callee")
  BY <1>2 DEF account
<1>6. DOMAIN sdp' = Ends
  BY <1>1 DEF Negotiated
<1> QED
  BY <1>2, <1>3, <1>4, <1>5, <1>6 DEF Negotiated

(* and so is the answer to it,                                             *)
LEMMA AnswerStep == ASSUME Negotiated, MakeAnswer PROVE Negotiated'
<1>1. PICK luck \in Luck(account("callee")) :
          LET answer == Answer("callee", account("callee"), luck, sdp["caller"])
          IN  /\ sdp' = [sdp EXCEPT !["callee"] = answer.sdp]
              /\ call' = [call EXCEPT !["callee"] = answer.call]
  BY DEF MakeAnswer
<1> DEFINE r == Answer("callee", account("callee"), luck, sdp["caller"])
<1>2. /\ sdp["caller"] # NoSdp /\ sdp["callee"] = NoSdp
      /\ CanAnswer(account("callee"), sdp["caller"])
      /\ shown' = [shown EXCEPT !["callee"] = "connecting"]
      /\ setting' = setting
  BY DEF MakeAnswer
<1>3. /\ sdp'["callee"] = r.sdp /\ sdp'["caller"] = sdp["caller"]
      /\ call'["callee"] = r.call /\ call'["caller"] = call["caller"]
      /\ DOMAIN sdp' = Ends /\ DOMAIN call' = Ends
  BY <1>1, EndFacts DEF Negotiated
<1>4. account("caller")' = account("caller") /\ account("callee")' = account("callee")
  BY <1>2 DEF account
<1>5. r.sdp # NoSdp
  <2>1. account("caller") \in Account /\ account("callee") \in Account
    BY AccountType, EndFacts DEF Negotiated
  <2>2. PICK luckA \in Luck(account("caller")) :
            sdp["caller"] = Offer("caller", account("caller"), luckA)
    BY <1>2 DEF Negotiated
  <2> QED
    BY <2>1, <2>2, <1>2, SidesAgree
<1>6. call["caller"] = NoCall /\ shown["caller"] = "none"
  BY <1>2, EndFacts DEF Negotiated
<1>7. shown'["caller"] = "none"
      /\ shown' \in [Ends -> {"none", "connecting", "active", "held", "conference", "ended"}]
  BY <1>2, <1>6, EndFacts DEF Negotiated
<1> QED
  BY <1>2, <1>3, <1>4, <1>5, <1>6, <1>7 DEF Negotiated

(* which is read once.                                                     *)
LEMMA ReadStep == ASSUME Negotiated, ReadAnswer PROVE Negotiated'
<1>1. call' = [call EXCEPT !["caller"] =
                   Conclude(account("caller"), sdp["caller"], sdp["callee"])]
  BY DEF ReadAnswer
<1> DEFINE c == Conclude(account("caller"), sdp["caller"], sdp["callee"])
<1>2. /\ sdp["callee"] # NoSdp /\ call["caller"] = NoCall
      /\ shown' = [shown EXCEPT !["caller"] = "connecting"]
      /\ setting' = setting /\ sdp' = sdp
  BY DEF ReadAnswer
<1>3. call'["caller"] = c /\ call'["callee"] = call["callee"] /\ DOMAIN call' = Ends
  BY <1>1, EndFacts DEF Negotiated
<1>4. account("caller")' = account("caller") /\ account("callee")' = account("callee")
  BY <1>2 DEF account
<1>5. c # NoCall
  <2>1. account("caller") \in Account /\ account("callee") \in Account
    BY AccountType, EndFacts DEF Negotiated
  <2>2. PICK luckA \in Luck(account("caller")) :
            sdp["caller"] = Offer("caller", account("caller"), luckA)
    BY <1>2 DEF Negotiated
  <2>3. PICK luckB \in Luck(account("callee")) :
            sdp["callee"] = Answer("callee", account("callee"), luckB, sdp["caller"]).sdp
    BY <1>2 DEF Negotiated
  <2>4. CanAnswer(account("callee"), sdp["caller"])
    BY <1>2 DEF Negotiated
  <2>5. Side("caller", c, sdp["callee"], account("caller"), account("callee"))
    BY <2>1, <2>2, <2>3, <2>4, SidesAgree
  <2> HIDE DEF c
  <2> QED
    BY <2>5 DEF Side, NoCall
<1>6. shown'["callee"] = shown["callee"]
      /\ shown' \in [Ends -> {"none", "connecting", "active", "held", "conference", "ended"}]
  BY <1>2, EndFacts DEF Negotiated
<1> QED
  BY <1>2, <1>3, <1>4, <1>5, <1>6 DEF Negotiated

(* Nothing but the client of an end changes what it shows of a call it has *)
(* a view of.                                                              *)
LEMMA NegotiatedStays ==
  ASSUME Negotiated, UNCHANGED session,
         shown' \in [Ends -> {"none", "connecting", "active", "held", "conference", "ended"}],
         \A e \in Ends : shown[e] = "none" => shown'[e] = "none"
  PROVE  Negotiated'
<1>1. setting' = setting /\ sdp' = sdp /\ call' = call
  BY DEF session
<1>2. account("caller")' = account("caller") /\ account("callee")' = account("callee")
  BY <1>1 DEF account
<1>3. shown["callee"] = "none" => shown'["callee"] = "none"
  BY EndFacts
<1>4. shown["caller"] = "none" => shown'["caller"] = "none"
  BY EndFacts
<1> QED
  BY <1>1, <1>2, <1>3, <1>4 DEF Negotiated

(* What the client does with a call it has a view of.                      *)
LEMMA ClientShows ==
  ASSUME Negotiated, NEW e \in Ends, Client(e)
  PROVE  /\ UNCHANGED session
         /\ shown[e] # "none"
         /\ \E s \in {"active", "held", "conference", "ended"} : shown' = [shown EXCEPT ![e] = s]
<1>1. CASE StartMedia(e)
  BY <1>1 DEF StartMedia
<1>2. CASE Hold(e)
  BY <1>2 DEF Hold
<1>3. CASE Resume(e)
  BY <1>3 DEF Resume
<1>4. CASE Merge(e)
  <2>1. shown = [shown EXCEPT ![e] = shown[e]]
    BY DEF Negotiated
  <2> QED
    BY <1>4, <2>1 DEF Merge
<1>5. CASE HangUp(e)
  BY <1>5 DEF HangUp
<1> QED
  BY <1>1, <1>2, <1>3, <1>4, <1>5 DEF Client

(* At first nothing is negotiated.                                         *)
LEMMA NegotiatedInitially == Init => Negotiated
<1> SUFFICES ASSUME Init PROVE Negotiated
  OBVIOUS
<1>1. /\ setting \in Scenarios
      /\ sdp = [e \in Ends |-> NoSdp] /\ call = [e \in Ends |-> NoCall]
      /\ shown = [e \in Ends |-> "none"]
  BY DEF Init
<1> QED
  BY <1>1, EndFacts DEF Negotiated

(* No step unsettles what is negotiated.                                   *)
LEMMA NegotiatedStep == Negotiated /\ [Next]_vars => Negotiated'
<1> SUFFICES ASSUME Negotiated, [Next]_vars PROVE Negotiated'
  OBVIOUS
<1>1. shown \in [Ends -> {"none", "connecting", "active", "held", "conference", "ended"}]
  BY DEF Negotiated
<1>2. CASE UNCHANGED <<session, shown>>
  BY <1>1, <1>2, NegotiatedStays
<1>3. CASE MakeOffer
  BY <1>3, OfferStep
<1>4. CASE MakeAnswer
  BY <1>4, AnswerStep
<1>5. CASE ReadAnswer
  BY <1>5, ReadStep
<1>6. CASE \E e \in Ends : Client(e)
  <2>1. PICK e \in Ends : Client(e)
    BY <1>6
  <2>2. PICK s \in {"active", "held", "conference", "ended"} : shown' = [shown EXCEPT ![e] = s]
    BY <2>1, ClientShows
  <2>3. UNCHANGED session /\ shown[e] # "none"
    BY <2>1, ClientShows
  <2>4. \A f \in Ends : shown[f] = "none" => shown'[f] = "none"
    BY <1>1, <2>2, <2>3
  <2>5. shown' \in [Ends -> {"none", "connecting", "active", "held", "conference", "ended"}]
    BY <1>1, <2>2
  <2> QED
    BY <2>3, <2>4, <2>5, NegotiatedStays
<1>7. CASE \E e \in Ends : ZrtpStep(e)
  BY <1>2, <1>7 DEF ZrtpStep
<1>8. CASE LoseZrtp
  BY <1>2, <1>8 DEF LoseZrtp
<1>9. CASE \E e \in Ends : Dtls(e)
  BY <1>2, <1>9 DEF Dtls, DtlsSecure, DtlsMismatch, DtlsFails, DtlsEnds
<1>10. CASE \E e \in Ends : TakeKey(e) \/ \E task \in {"send", "recv"} : SeeStop(e, task)
  BY <1>2, <1>10 DEF TakeKey, SeeStop
<1>11. CASE \E e \in Ends : ReceiveFrame(e) \/ \E what \in {"voice", "noise"} : SendFrame(e, what)
  BY <1>2, <1>11 DEF ReceiveFrame, SendFrame
<1>12. CASE FilmFrame \/ ShowVideo \/ LosePacket
  BY <1>2, <1>12 DEF FilmFrame, ShowVideo, LosePacket
<1>13. CASE UNCHANGED vars
  BY <1>2, <1>13 DEF vars
<1> QED
  BY <1>3, <1>4, <1>5, <1>6, <1>7, <1>8, <1>9, <1>10, <1>11, <1>12, <1>13 DEF Next

(* What has been described and concluded stays so, in every session: a     *)
(* call has one offer, one answer, and what each end made of them.         *)
THEOREM NegotiatedAlways == Spec => []Negotiated
<1> QED
  BY NegotiatedInitially, NegotiatedStep, PTL DEF Spec

(* The ends agree: once both consider the call connected they have one     *)
(* codec that both allow, SDES keys each the mirror of the other's or      *)
(* none, opposite DTLS roles or none, and video both or neither; for any   *)
(* codec lists, any keying of each, and whatever a TURN server, ICE or a   *)
(* certificate store decides (accept_call chooses, handle_connected has to *)
(* come to the same).                                                      *)
THEOREM TheEndsAgree == Spec => []OfferAnswerAgree
<1>1. Negotiated => OfferAnswerAgree
  <2> SUFFICES ASSUME Negotiated, Connected PROVE OfferAnswerAgree
    BY DEF OfferAnswerAgree
  <2>1. call["caller"] # NoCall
    BY EndFacts DEF Connected
  <2>2. Settled("caller") /\ Settled("callee")
    BY <2>1, BothSettled
  <2> DEFINE a == call["caller"]
             b == call["callee"]
  <2>3. a.codec = b.codec /\ \A e \in Ends : Contains(account_codecs(account(e)), a.codec)
    BY <2>2 DEF Settled, Side, Ends
  <2>4. /\ a.audio.sendKey = b.audio.recvKey /\ a.audio.recvKey = b.audio.sendKey
        /\ a.video.sendKey = b.video.recvKey /\ a.video.recvKey = b.video.sendKey
        /\ a.video = NoLeg <=> b.video = NoLeg
    BY <2>2, EndFacts DEF Settled, Side, OwnKeys, NoLeg
  <2>5. {a.role, b.role} \in {{NoSetup}, {"active", "passive"}}
    <3>1. CASE sdp["callee"][1].setup = NoSetup
      BY <2>2, <3>1 DEF Settled, Side
    <3>2. CASE sdp["callee"][1].setup # NoSetup
      <4>1. a.role = "passive" /\ b.role = "active"
        BY <2>2, <3>2 DEF Settled, Side
      <4> QED
        BY <4>1
    <3> QED
      BY <3>1, <3>2
  <2> QED
    BY <2>3, <2>4, <2>5 DEF OfferAnswerAgree
<1> QED
  BY <1>1, NegotiatedAlways, PTL

-----------------------------------------------------------------------------
(* The engines of a handshake.                                             *)

HandshakeBounds ==
    \A e \in Ends :
        /\ hs[e].id <= MaxStarts
        /\ hs[e].key[1] <= MaxStarts /\ hs[e].key[2] <= MaxStarts
        /\ hs[e].phase = "Off" => hs[e].pending = NoMessage

(* How a handler of a message leaves the engine of its end: its number and *)
(* keys of engines that there are.                                         *)
LEMMA BoundedSend ==
  ASSUME ZTypeOK, HandshakeBounds, NEW e \in Ends, NEW eng \in Engine, NEW m,
         Send(e, eng, m),
         eng.id <= MaxStarts, eng.key[1] <= MaxStarts, eng.key[2] <= MaxStarts,
         eng.phase # "Off"
  PROVE  HandshakeBounds'
<1>1. hs' = [hs EXCEPT ![e] = [eng EXCEPT !.pending = m, !.tries = 0]]
  BY DEF Send
<1> DEFINE new == [eng EXCEPT !.pending = m, !.tries = 0]
<1>2. new.id = eng.id /\ new.key = eng.key /\ new.phase = eng.phase
  BY DEF Engine
<1> HIDE DEF new
<1>3. \A f \in Ends : hs'[f] = IF f = e THEN new ELSE hs[f]
  BY <1>1 DEF ZTypeOK, new
<1> QED
  BY <1>2, <1>3 DEF HandshakeBounds

(* So does what ends or fails a handshake.                                 *)
LEMMA BoundedBecome ==
  ASSUME ZTypeOK, HandshakeBounds, NEW e \in Ends, NEW eng,
         Become(e, eng),
         eng.id <= MaxStarts, eng.key[1] <= MaxStarts, eng.key[2] <= MaxStarts,
         eng.phase = "Off" => eng.pending = NoMessage
  PROVE  HandshakeBounds'
<1>1. \A f \in Ends : hs'[f] = IF f = e THEN eng ELSE hs[f]
  BY DEF Become, ZTypeOK
<1> QED
  BY <1>1 DEF HandshakeBounds

(* A message on the wire is of an engine that was started.                 *)
LEMMA NumberedMessages ==
  ASSUME ZInv, NEW m \in wire
  PROVE  /\ m \in Message /\ m.id \in Nat
         /\ m.type = "DhPart2" => m.id <= hs["caller"].id
<1>1. m \in Sent /\ m \in Message
  BY DEF Sent, ZInv, ZTypeOK
<1> QED
  BY <1>1 DEF ZInv, Agreed, GoodMsg, Message

(* What an engine of a handshake is made of.                               *)
LEMMA EngineFields ==
  ASSUME ZTypeOK, NEW e \in Ends
  PROVE  /\ hs[e] \in Engine /\ hs[e].id \in Nat /\ hs[e].peer \in Nat
         /\ hs[e].key[1] \in Nat /\ hs[e].key[2] \in Nat
BY DEF ZTypeOK, Engine, Pair

(* Every handler of a message keeps the bounds,                            *)
LEMMA BoundedReceive ==
  ASSUME ZInv, HandshakeBounds, NEW e \in Ends, NEW m \in wire, Receive(e, m)
  PROVE  HandshakeBounds'
<1>1. ZTypeOK
  BY DEF ZInv
<1>2. /\ hs[e] \in Engine
      /\ hs[e].id <= MaxStarts /\ hs[e].key[1] <= MaxStarts /\ hs[e].key[2] <= MaxStarts
  BY <1>1, EngineFields DEF HandshakeBounds
<1>3. ASSUME Fail(e), hs[e].phase # "Off"
      PROVE  HandshakeBounds'
  <2> DEFINE eng == [hs[e] EXCEPT !.phase = "Failed"]
  <2>1. eng.id = hs[e].id /\ eng.key = hs[e].key /\ eng.phase # "Off"
    BY <1>2 DEF Engine
  <2>2. Become(e, eng)
    BY <1>3 DEF Fail
  <2> HIDE DEF eng
  <2> QED
    BY <1>1, <1>2, <2>1, <2>2, BoundedBecome
<1>4. CASE OnHello(e, m)
  <2> DEFINE held == [hs[e] EXCEPT !.phase = "HelloReceived", !.peer = m.id]
             pair == <<held.id, m.id>>
             eng == [held EXCEPT !.phase = "CommitSent", !.commit = pair]
  <2>1. /\ held.id = hs[e].id /\ held.key = hs[e].key /\ held.phase # "Off"
        /\ eng.id = hs[e].id /\ eng.key = hs[e].key /\ eng.phase # "Off"
        /\ eng \in Engine
    BY <1>2, NumberedMessages DEF Engine, HandshakeState, Pair
  <2>2. Send(e, eng, Commit(pair)) \/ Become(e, held)
    BY <1>4 DEF OnHello
  <2> HIDE DEF eng, held
  <2> QED
    BY <1>1, <1>2, <2>1, <2>2, BoundedBecome, BoundedSend
<1>5. CASE OnCommit(e, m)
  <2> DEFINE eng == [hs[e] EXCEPT !.phase = "DhPart1Sent", !.commit = m.binds]
  <2>1. eng.id = hs[e].id /\ eng.key = hs[e].key /\ eng.phase # "Off" /\ eng \in Engine
    BY <1>2, NumberedMessages DEF Engine, HandshakeState, Message
  <2>2. Send(e, eng, DhPart1(hs[e].id)) \/ Fail(e)
    BY <1>5 DEF OnCommit
  <2>3. hs[e].phase # "Off"
    BY <1>5 DEF OnCommit, Takes
  <2> HIDE DEF eng
  <2> QED
    BY <1>1, <1>2, <1>3, <2>1, <2>2, <2>3, BoundedSend
<1>6. CASE OnDhPart1(e, m)
  <2> DEFINE eng == [hs[e] EXCEPT !.phase = "DhPart2Sent", !.key = <<hs[e].id, m.id>>]
  <2>1. /\ eng.id = hs[e].id /\ eng.key = <<hs[e].id, m.id>> /\ eng.phase # "Off"
        /\ eng \in Engine
    BY <1>2, NumberedMessages DEF Engine, HandshakeState, Pair
  <2>2. (Send(e, eng, DhPart2(hs[e].id)) /\ m.id = hs[e].peer) \/ Fail(e)
    BY <1>6 DEF OnDhPart1
  <2>3. hs[e].phase # "Off" /\ e = "caller"
    BY <1>6 DEF OnDhPart1, Takes, Initiator
  <2>4. hs[e].peer <= MaxStarts
    <3>1. hs["caller"].peer <= hs["callee"].id
      BY DEF ZInv, Agreed, Across
    <3> QED
      BY <3>1, <2>3, <1>1, EngineFields, EndFacts, ZrtpAssumption DEF HandshakeBounds
  <2> HIDE DEF eng
  <2>5. CASE Send(e, eng, DhPart2(hs[e].id)) /\ m.id = hs[e].peer
    <3>1. eng.key[1] <= MaxStarts /\ eng.key[2] <= MaxStarts
      BY <1>2, <2>1, <2>4, <2>5
    <3> QED
      BY <1>1, <1>2, <2>1, <2>5, <3>1, BoundedSend
  <2> QED
    BY <1>3, <2>2, <2>3, <2>5
<1>7. CASE OnDhPart2(e, m)
  <2> DEFINE pair == <<m.id, hs[e].id>>
             eng == [hs[e] EXCEPT !.phase = "Confirm1Sent", !.key = pair]
  <2>1. /\ eng.id = hs[e].id /\ eng.key = <<m.id, hs[e].id>> /\ eng.phase # "Off"
        /\ eng \in Engine
    BY <1>2, NumberedMessages DEF Engine, HandshakeState, Pair
  <2>2. Send(e, eng, Confirm1(pair)) \/ Fail(e)
    BY <1>7 DEF OnDhPart2
  <2>3. hs[e].phase # "Off" /\ m.type = "DhPart2"
    BY <1>7 DEF OnDhPart2, Takes
  <2>4. m.id <= MaxStarts
    <3>1. m.id <= hs["caller"].id /\ m.id \in Nat
      BY <2>3, NumberedMessages
    <3> QED
      BY <3>1, <1>1, EngineFields, EndFacts, ZrtpAssumption DEF HandshakeBounds
  <2> HIDE DEF eng
  <2>5. eng.key[1] <= MaxStarts /\ eng.key[2] <= MaxStarts
    BY <1>2, <2>1, <2>4
  <2> QED
    BY <1>1, <1>2, <1>3, <2>1, <2>2, <2>3, <2>5, BoundedSend
<1>8. CASE OnConfirm1(e, m)
  <2> DEFINE eng == [hs[e] EXCEPT !.phase = "Confirm2Sent"]
  <2>1. eng.id = hs[e].id /\ eng.key = hs[e].key /\ eng.phase # "Off" /\ eng \in Engine
    BY <1>2 DEF Engine, HandshakeState
  <2>2. Send(e, eng, Confirm2(hs[e].key)) \/ Fail(e)
    BY <1>8 DEF OnConfirm1
  <2>3. hs[e].phase # "Off"
    BY <1>8 DEF OnConfirm1, Takes
  <2> HIDE DEF eng
  <2> QED
    BY <1>1, <1>2, <1>3, <2>1, <2>2, <2>3, BoundedSend
<1>9. ASSUME hs' = [hs EXCEPT ![e] = Secured(hs[e])]
      PROVE  HandshakeBounds'
  <2>1. Secured(hs[e]).id = hs[e].id /\ Secured(hs[e]).key = hs[e].key /\ Secured(hs[e]).phase # "Off"
    BY <1>2 DEF Secured, Engine
  <2>2. \A f \in Ends : hs'[f] = IF f = e THEN Secured(hs[e]) ELSE hs[f]
    BY <1>1, <1>9 DEF ZTypeOK
  <2> QED
    BY <1>2, <2>1, <2>2 DEF HandshakeBounds
<1>10. CASE OnConfirm2(e, m)
  BY <1>3, <1>9, <1>10 DEF OnConfirm2, Takes
<1>11. CASE OnConf2Ack(e, m)
  BY <1>9, <1>11 DEF OnConf2Ack, Become
<1> QED
  BY <1>4, <1>5, <1>6, <1>7, <1>8, <1>10, <1>11 DEF Receive

(* and so does the interval,                                               *)
LEMMA BoundedTick ==
  ASSUME ZInv, HandshakeBounds, NEW e \in Ends, Tick(e)
  PROVE  HandshakeBounds'
<1>1. ZTypeOK /\ hs[e] \in Engine /\ hs[e].pending # NoMessage
  BY EngineFields DEF ZInv, Tick
<1>2. hs[e].phase # "Off"
  BY <1>1 DEF HandshakeBounds
<1>3. \E eng : /\ eng.id = hs[e].id /\ eng.key = hs[e].key /\ eng.phase = hs[e].phase
               /\ hs' = [hs EXCEPT ![e] = eng]
  <2>1. CASE hs' = [hs EXCEPT ![e] = [hs[e] EXCEPT !.pending = NoMessage, !.tries = 0]]
    <3> DEFINE eng == [hs[e] EXCEPT !.pending = NoMessage, !.tries = 0]
    <3>1. eng.id = hs[e].id /\ eng.key = hs[e].key /\ eng.phase = hs[e].phase
      BY <1>1 DEF Engine
    <3> QED
      BY <2>1, <3>1
  <2>2. CASE hs' = [hs EXCEPT ![e].tries = @ + 1]
    <3> DEFINE eng == [hs[e] EXCEPT !.tries = @ + 1]
    <3>1. eng.id = hs[e].id /\ eng.key = hs[e].key /\ eng.phase = hs[e].phase
      BY <1>1 DEF Engine
    <3>2. hs' = [hs EXCEPT ![e] = eng]
      BY <2>2
    <3> QED
      BY <3>1, <3>2
  <2> QED
    BY <2>1, <2>2 DEF Tick, Become
<1>4. PICK eng : /\ eng.id = hs[e].id /\ eng.key = hs[e].key /\ eng.phase = hs[e].phase
                 /\ hs' = [hs EXCEPT ![e] = eng]
  BY <1>3
<1>5. \A f \in Ends : hs'[f] = IF f = e THEN eng ELSE hs[f]
  BY <1>1, <1>4 DEF ZTypeOK
<1> QED
  BY <1>2, <1>4, <1>5 DEF HandshakeBounds

(* and so does every step.                                                 *)
LEMMA HandshakeBoundsStep == ZInv /\ HandshakeBounds /\ [ZNext]_zvars => HandshakeBounds'
<1> SUFFICES ASSUME ZInv, HandshakeBounds, [ZNext]_zvars PROVE HandshakeBounds'
  OBVIOUS
<1>1. ZTypeOK
  BY DEF ZInv
<1>2. CASE UNCHANGED hs
  BY <1>2 DEF HandshakeBounds
<1>3. CASE UNCHANGED zvars \/ \E m \in wire : Lose(m)
  BY <1>2, <1>3 DEF zvars, Lose
<1>4. ASSUME NEW e \in Ends, Start(e)
      PROVE  HandshakeBounds'
  <2> DEFINE id == hs[e].id + 1
             eng == [NoEngine(id) EXCEPT !.phase = "HelloSent"]
  <2>1. id \in Nat /\ id <= MaxStarts
    BY <1>1, <1>4, EngineFields, ZrtpAssumption DEF Start
  <2> HIDE DEF id
  <2>2. eng \in Engine
    BY <2>1, NewEngineType DEF Engine, HandshakeState
  <2>3. eng.id = id /\ eng.key = NoPair /\ eng.phase # "Off"
    BY DEF NoEngine
  <2>4. Send(e, eng, Hello(e, id))
    BY <1>4 DEF Start, id
  <2> HIDE DEF eng
  <2>5. eng.key[1] <= MaxStarts /\ eng.key[2] <= MaxStarts
    BY <2>3, ZrtpAssumption DEF NoPair
  <2> QED
    BY <1>1, <2>1, <2>2, <2>3, <2>4, <2>5, BoundedSend
<1>5. ASSUME NEW e \in Ends, Stop(e)
      PROVE  HandshakeBounds'
  <2>1. Become(e, NoEngine(hs[e].id))
    BY <1>5 DEF Stop
  <2>2. /\ NoEngine(hs[e].id).id = hs[e].id /\ NoEngine(hs[e].id).key = NoPair
        /\ NoEngine(hs[e].id).pending = NoMessage
    BY DEF NoEngine
  <2>3. NoPair[1] <= MaxStarts /\ NoPair[2] <= MaxStarts
    BY ZrtpAssumption DEF NoPair
  <2> QED
    BY <1>1, <2>1, <2>2, <2>3, BoundedBecome DEF HandshakeBounds
<1>6. ASSUME NEW e \in Ends, Handshake(e)
      PROVE  HandshakeBounds'
  BY <1>6, BoundedReceive, BoundedTick DEF Handshake
<1> QED
  BY <1>3, <1>4, <1>5, <1>6 DEF ZNext

(* A handshake has no more engines than were started.                      *)
LEMMA HandshakeBounded == ZSpec => [](ZInv /\ HandshakeBounds)
<1>1. ZInit => ZInv /\ HandshakeBounds
  <2>1. ZInit => HandshakeBounds
    BY ZrtpAssumption DEF ZInit, HandshakeBounds, NoEngine, NoPair
  <2> QED
    BY <2>1, ZInitial
<1>2. ZInv /\ HandshakeBounds /\ [ZNext]_zvars => (ZInv /\ HandshakeBounds)'
  BY HandshakeBoundsStep, ZStep
<1> QED
  BY <1>1, <1>2, PTL DEF ZSpec

-----------------------------------------------------------------------------
(* The media engines.                                                      *)

MediaEngine ==
    [id: 0..MaxStarts, leg: {1, 2}, tasks: SUBSET {"send", "recv"}, sendKey: Keys, recvKey: Keys,
     queued: Keys, dtls: {"none", "shaking"}, stopping: BOOLEAN]

Handmade == {"zrtp", "dtls"}
OwnerKnown(e) ==
    /\ engine[e].recvKey.kind \in Handmade => engine[e].recvKey.of = Peer(e)
    /\ engine[e].sendKey.kind \in Handmade => engine[e].sendKey.of = e
    /\ engine[e].queued.kind \in Handmade => engine[e].queued.of = e

(* Without a handshake of either kind an engine keeps the keys it was      *)
(* started with.                                                           *)
KeysKept(e) ==
    account(e).keying # "zrtp" /\ call[e].role = NoSetup =>
        /\ Up(e, "send") =>
               engine[e].sendKey = call[e].audio.sendKey /\ engine[e].queued = PlainKey
        /\ Up(e, "recv") => engine[e].recvKey = call[e].audio.recvKey

(* Only a DTLS handshake holds the port after stop, or ends the tasks of a *)
(* call that goes on.                                                      *)
DtlsAlone(e) ==
    /\ engine[e].dtls = "shaking" \/ engine[e].stopping \/ e \in lingers
           => shown[e] # "none" /\ call[e].role # NoSetup
    /\ shown[e] \in {"active", "conference"} /\ call[e].role = NoSetup
           => engine[e].tasks = {"send", "recv"}

EngineFits(e) ==
    /\ Running(e) => Up(e, "recv") /\ account(e).keying = "zrtp"
    /\ engine[e].tasks # {} => shown[e] \in {"active", "conference"}
    /\ DtlsAlone(e) /\ OwnerKnown(e) /\ KeysKept(e)

EnginesFit ==
    /\ engine \in [Ends -> MediaEngine]
    /\ video \subseteq {e \in Ends : engine[e].id > 0}
    /\ lingers \subseteq Ends
    /\ \A e \in Ends : EngineFits(e)

(* Keys that a handshake makes.                                            *)
LEMMA MadeKeys ==
  ASSUME NEW kind \in Handmade, NEW e \in Ends,
         NEW pair, pair \in (0..MaxStarts) \X (0..MaxStarts)
  PROVE  KeyOf(kind, e, pair) \in Keys /\ KeyOf(kind, e, pair).of = e
BY DEF Keys, KeyOf, Handmade

(* The plain key is of no handshake.                                       *)
LEMMA PlainKeyFacts == PlainKey \in Keys /\ PlainKey.kind \notin Handmade
BY DEF Keys, PlainKey, Handmade

(* The keys of a call, of no handshake either.                             *)
LEMMA CallKeys ==
  ASSUME Negotiated, NEW e \in Ends, shown[e] # "none"
  PROVE  /\ call[e].audio.sendKey \in Keys /\ call[e].audio.sendKey.kind \notin Handmade
         /\ call[e].audio.recvKey \in Keys /\ call[e].audio.recvKey.kind \notin Handmade
<1>1. PICK sdes \in BOOLEAN : OwnKeys(call[e].audio, e, "audio", sdes)
  BY ShownIsSettled DEF Settled, Side
<1>2. "audio" \in Legs /\ Peer(e) \in Ends
  BY PeerFacts DEF Legs
<1>3. \A f \in Ends : SdesKey(f, "audio") \in Keys /\ SdesKey(f, "audio").kind \notin Handmade
  BY <1>2, SdesKeys DEF Keys, Handmade
<1> QED
  BY <1>1, <1>2, <1>3, PlainKeyFacts DEF OwnKeys

(* A role in a DTLS handshake is of accounts that want DTLS.               *)
LEMMA RoleIsDtls ==
  ASSUME Negotiated, NEW e \in Ends, shown[e] # "none", call[e].role # NoSetup
  PROVE  \A f \in Ends : account(f).keying = "dtls"
<1>1. Settled(e)
  BY ShownIsSettled
<1> QED
  BY <1>1 DEF Settled, Side, Ends

(* An end of which a step changes nothing.                                 *)
LEMMA EngineStays ==
  ASSUME NEW f \in Ends, EngineFits(f), engine'[f] = engine[f], shown'[f] = shown[f],
         call'[f] = call[f], setting' = setting, Running(f)' => Running(f),
         f \in lingers' => f \in lingers
  PROVE  EngineFits(f)'
<1>1. account(f)' = account(f)
  BY DEF account
<1>2. OwnerKnown(f)' /\ KeysKept(f)' /\ DtlsAlone(f)'
  BY <1>1 DEF EngineFits, OwnerKnown, KeysKept, DtlsAlone, Up
<1> QED
  BY <1>1, <1>2 DEF EngineFits, Up

(* What a step that changes the engine of one end has to show.             *)
LEMMA EngineChanges ==
  ASSUME Negotiated, EnginesFit, NEW e \in Ends, NEW x \in MediaEngine,
         engine' = [engine EXCEPT ![e] = x], x.id >= engine[e].id,
         UNCHANGED session,
         video' \subseteq video \cup {e}, e \in video' => x.id > 0,
         lingers' \subseteq lingers \cup {e},
         \A f \in Ends \ {e} : shown'[f] = shown[f] /\ hs'[f] = hs[f],
         EngineFits(e)'
  PROVE  EnginesFit'
<1>1. engine'[e] = x /\ \A f \in Ends \ {e} : engine'[f] = engine[f]
  BY DEF EnginesFit
<1>2. engine' \in [Ends -> MediaEngine]
  BY DEF EnginesFit
<1>3. ASSUME NEW f \in Ends, f # e
      PROVE  EngineFits(f)'
  <2>1. Running(f)' => Running(f)
    BY <1>3 DEF Running
  <2>2. EngineFits(f) /\ engine'[f] = engine[f] /\ shown'[f] = shown[f]
    BY <1>1, <1>3 DEF EnginesFit
  <2>3. setting' = setting /\ call'[f] = call[f]
    BY DEF session
  <2> QED
    BY <1>3, <2>1, <2>2, <2>3, EngineStays
<1>4. video' \subseteq {f \in Ends : engine'[f].id > 0}
  BY <1>1 DEF EnginesFit
<1>5. lingers' \subseteq Ends
  BY DEF EnginesFit
<1> QED
  BY <1>2, <1>3, <1>4, <1>5 DEF EnginesFit

(* What an end does with its handshake is its own affair.                  *)
LEMMA Elsewhere ==
  ASSUME ZTypeOK, NEW e \in Ends, NEW f \in Ends \ {e},
         Start(e) \/ StopZrtp(e) \/ Handshake(e) \/ UNCHANGED zvars
  PROVE  hs'[f] = hs[f]
<1>1. CASE UNCHANGED hs
  BY <1>1
<1>2. CASE \E x : hs' = [hs EXCEPT ![e] = x]
  BY <1>2 DEF ZTypeOK
<1>3. CASE Start(e)
  BY <1>2, <1>3 DEF Start, Send
<1>4. CASE StopZrtp(e)
  BY <1>1, <1>2, <1>4 DEF StopZrtp, Stop, Become, zvars
<1>5. CASE Handshake(e)
  <2>1. CASE Tick(e)
    <3>1. \/ hs' = [hs EXCEPT ![e] = [hs[e] EXCEPT !.pending = NoMessage, !.tries = 0]]
          \/ hs' = [hs EXCEPT ![e].tries = @ + 1]
      BY <2>1 DEF Tick, Become
    <3> QED
      BY <3>1 DEF ZTypeOK
  <2>2. CASE \E m \in wire : Receive(e, m)
    BY <1>2, <2>2 DEF Receive, OnHello, OnCommit, OnDhPart1, OnDhPart2, OnConfirm1, OnConfirm2,
          OnConf2Ack, Send, Become, Fail
  <2> QED
    BY <1>5, <2>1, <2>2 DEF Handshake
<1> QED
  BY <1>1, <1>3, <1>4, <1>5 DEF zvars

(* An engine that takes a packet or sends again is running.                *)
LEMMA HandshakeRuns ==
  ASSUME ZTypeOK, HandshakeBounds, NEW e \in Ends, Handshake(e)
  PROVE  Running(e)
<1>1. CASE Tick(e)
  BY <1>1 DEF Tick, HandshakeBounds, Running
<1>2. CASE \E m \in wire : Receive(e, m)
  BY <1>2 DEF Receive, OnHello, OnCommit, OnDhPart1, OnDhPart2, OnConfirm1, OnConfirm2, OnConf2Ack,
        Takes, Running
<1> QED
  BY <1>1, <1>2 DEF Handshake

(* An engine that was stopped has no handshake.                            *)
LEMMA StopsRunning ==
  ASSUME ZTypeOK, NEW e \in Ends, StopZrtp(e)
  PROVE  ~Running(e)'
<1>1. CASE Running(e)
  <2>1. hs' = [hs EXCEPT ![e] = NoEngine(hs[e].id)]
    BY <1>1 DEF StopZrtp, Stop, Become
  <2>2. hs'[e] = NoEngine(hs[e].id)
    BY <2>1 DEF ZTypeOK
  <2> QED
    BY <2>2 DEF Running, NoEngine
<1>2. CASE ~Running(e)
  BY <1>2 DEF StopZrtp, Running, zvars
<1> QED
  BY <1>1, <1>2

(* What a media engine is made of.                                         *)
LEMMA EngineRecords ==
  ASSUME EnginesFit, NEW e \in Ends
  PROVE  /\ engine[e] \in MediaEngine
         /\ engine[e].id \in 0..MaxStarts /\ engine[e].tasks \in SUBSET {"send", "recv"}
         /\ engine[e].dtls \in {"none", "shaking"} /\ engine[e].stopping \in BOOLEAN
         /\ {engine[e].sendKey, engine[e].recvKey, engine[e].queued} \subseteq Keys
BY DEF EnginesFit, MediaEngine

(* An end without an engine,                                               *)
LEMMA NoEngineType ==
  ASSUME NEW id \in 0..MaxStarts
  PROVE  /\ NoEngineAt(id) \in MediaEngine
         /\ NoEngineAt(id).id = id /\ NoEngineAt(id).tasks = {} /\ NoEngineAt(id).dtls = "none"
         /\ ~NoEngineAt(id).stopping
         /\ NoEngineAt(id).sendKey = PlainKey /\ NoEngineAt(id).recvKey = PlainKey
         /\ NoEngineAt(id).queued = PlainKey
BY PlainKeyFacts DEF NoEngineAt, MediaEngine

(* and one with a new one.                                                 *)
LEMMA NewEngineFacts ==
  ASSUME Negotiated, EnginesFit, NEW e \in Ends, shown[e] # "none", NEW conference \in BOOLEAN,
         NEW leg \in {1, 2},
         engine[e].id + 1 \in 0..MaxStarts
  PROVE  /\ NewEngine(e, conference, leg) \in MediaEngine
         /\ NewEngine(e, conference, leg).id = engine[e].id + 1
         /\ NewEngine(e, conference, leg).tasks = {"send", "recv"}
         /\ NewEngine(e, conference, leg).dtls = "shaking" => call[e].role # NoSetup
         /\ ~NewEngine(e, conference, leg).stopping
         /\ NewEngine(e, conference, leg).sendKey = call[e].audio.sendKey
         /\ NewEngine(e, conference, leg).recvKey = call[e].audio.recvKey
         /\ NewEngine(e, conference, leg).queued = PlainKey
<1>1. /\ NewEngine(e, conference, leg).id = engine[e].id + 1
      /\ NewEngine(e, conference, leg).tasks = {"send", "recv"}
      /\ NewEngine(e, conference, leg).dtls \in {"none", "shaking"}
      /\ NewEngine(e, conference, leg).dtls = "shaking" => call[e].role # NoSetup
      /\ NewEngine(e, conference, leg).stopping = FALSE
      /\ NewEngine(e, conference, leg).sendKey = call[e].audio.sendKey
      /\ NewEngine(e, conference, leg).recvKey = call[e].audio.recvKey
      /\ NewEngine(e, conference, leg).queued = PlainKey
  BY DEF NewEngine, EngineKeys, DtlsTask
<1>2. NewEngine(e, conference, leg) \in MediaEngine
  BY <1>1, CallKeys, PlainKeyFacts DEF NewEngine, MediaEngine, EngineKeys, DtlsTask
<1> QED
  BY <1>1, <1>2

(* There is room for one more engine.                                      *)
LEMMA RoomForOne ==
  ASSUME EnginesFit, NEW e \in Ends, engine["caller"].id + engine["callee"].id < MaxStarts
  PROVE  engine[e].id + 1 \in 0..MaxStarts /\ engine[e].id + 1 > 0
<1>1. engine["caller"].id \in 0..MaxStarts /\ engine["callee"].id \in 0..MaxStarts
  BY EngineRecords, EndFacts
<1> QED
  BY <1>1, ZrtpAssumption DEF Ends

(* An end without tasks: nobody has to hear from it, except in a call with *)
(* DTLS, whose port may still be held.                                     *)
LEMMA SilentFits ==
  ASSUME NEW e \in Ends, UNCHANGED session,
         engine'[e].tasks = {}, engine'[e].dtls = "none", ~engine'[e].stopping,
         OwnerKnown(e)', ~Running(e)', shown'[e] # "none",
         shown'[e] \in {"active", "conference"} => call[e].role # NoSetup,
         e \in lingers' => call[e].role # NoSetup
  PROVE  EngineFits(e)'
<1>1. call' = call
  BY DEF session
<1>2. DtlsAlone(e)' /\ KeysKept(e)'
  BY <1>1 DEF DtlsAlone, KeysKept, Up
<1> QED
  BY <1>2 DEF EngineFits

(* An end that was just started.                                           *)
LEMMA FreshFits ==
  ASSUME NEW e \in Ends, UNCHANGED session,
         engine'[e].tasks = {"send", "recv"},
         engine'[e].dtls = "shaking" => call[e].role # NoSetup,
         ~engine'[e].stopping,
         engine'[e].sendKey = call[e].audio.sendKey,
         engine'[e].recvKey = call[e].audio.recvKey,
         engine'[e].queued = PlainKey,
         call[e].audio.sendKey.kind \notin Handmade, call[e].audio.recvKey.kind \notin Handmade,
         Running(e)' => account(e).keying = "zrtp",
         shown'[e] \in {"active", "conference"},
         e \in lingers' => call[e].role # NoSetup
  PROVE  EngineFits(e)'
<1>1. call' = call /\ setting' = setting
  BY DEF session
<1>2. account(e)' = account(e)
  BY <1>1 DEF account
<1>3. DtlsAlone(e)'
  BY <1>1 DEF DtlsAlone
<1>4. KeysKept(e)' /\ OwnerKnown(e)'
  BY <1>1, PlainKeyFacts DEF KeysKept, OwnerKnown
<1> QED
  BY <1>2, <1>3, <1>4 DEF EngineFits, Up

(* Plain keys need no owner.                                               *)
LEMMA PlainOwner ==
  ASSUME NEW e \in Ends, engine'[e].sendKey = PlainKey, engine'[e].recvKey = PlainKey,
         engine'[e].queued = PlainKey
  PROVE  OwnerKnown(e)'
BY PlainKeyFacts DEF OwnerKnown

(* CallConnected and resume: an engine is started, or its port is taken.   *)
LEMMA StartedFits ==
  ASSUME Negotiated, EnginesFit, ZTypeOK, NEW e \in Ends,
         shown[e] \in {"connecting", "held"}, shown' = [shown EXCEPT ![e] = "active"],
         Started(e), UNCHANGED <<session, lingers>>
  PROVE  EnginesFit'
<1>1. engine[e].id + 1 \in 0..MaxStarts /\ engine[e].id + 1 > 0
  BY RoomForOne DEF Started
<1>2. shown'[e] = "active" /\ \A f \in Ends \ {e} : shown'[f] = shown[f]
  BY DEF Negotiated
<1>3. EngineFits(e) /\ engine[e] \in MediaEngine /\ DOMAIN engine = Ends
  BY DEF EnginesFit
<1>4. engine[e].tasks = {} /\ ~Running(e)
  BY <1>3 DEF EngineFits, Up
<1>5. ASSUME NEW f \in Ends \ {e}
      PROVE  hs'[f] = hs[f]
  BY Elsewhere DEF Started, zvars
<1>6. CASE PortTaken(e, lingers)
  <2> DEFINE x == [engine[e] EXCEPT !.id = @ + 1]
  <2>1. engine' = [engine EXCEPT ![e] = x] /\ UNCHANGED <<video, zvars>>
    BY <1>6 DEF Started
  <2>2. /\ x \in MediaEngine /\ x.id = engine[e].id + 1 /\ x.tasks = engine[e].tasks
        /\ x.dtls = engine[e].dtls /\ x.stopping = engine[e].stopping
        /\ x.sendKey = engine[e].sendKey /\ x.recvKey = engine[e].recvKey
        /\ x.queued = engine[e].queued
    BY <1>1, <1>3 DEF MediaEngine
  <2> HIDE DEF x
  <2>3. engine'[e] = x
    BY <2>1, <1>3
  <2>4. call[e].role # NoSetup /\ shown[e] # "none"
    BY <1>3, <1>6 DEF PortTaken, EngineFits, DtlsAlone
  <2>5. call' = call /\ setting' = setting /\ hs' = hs /\ lingers' = lingers /\ video' = video
    BY <2>1 DEF session, zvars
  <2>6. DtlsAlone(e)' /\ KeysKept(e)'
    BY <1>2, <2>4, <2>5 DEF DtlsAlone, KeysKept
  <2>7. OwnerKnown(e)'
    BY <1>3, <2>2, <2>3 DEF OwnerKnown, EngineFits
  <2>8. ~Running(e)'
    BY <1>4, <2>5 DEF Running
  <2>9. EngineFits(e)'
    BY <1>2, <2>6, <2>7, <2>8 DEF EngineFits
  <2>10. x.id >= engine[e].id /\ x.id > 0
    BY <1>1, <2>2, <1>3 DEF MediaEngine
  <2> QED
    BY <1>2, <1>5, <2>1, <2>2, <2>5, <2>9, <2>10, EngineChanges
<1>7. CASE ~PortTaken(e, lingers)
  <2> DEFINE x == NewEngine(e, FALSE, 1)
  <2>1. /\ engine' = [engine EXCEPT ![e] = x]
        /\ video' \subseteq video \cup {e}
        /\ IF account(e).keying = "zrtp" THEN Start(e) ELSE UNCHANGED zvars
    BY <1>7 DEF Started, StartVideo
  <2>2. /\ x \in MediaEngine /\ x.id = engine[e].id + 1 /\ x.tasks = {"send", "recv"}
        /\ x.dtls = "shaking" => call[e].role # NoSetup
        /\ ~x.stopping
        /\ x.sendKey = call[e].audio.sendKey /\ x.recvKey = call[e].audio.recvKey
        /\ x.queued = PlainKey
    BY <1>1, NewEngineFacts
  <2> HIDE DEF x
  <2>3. engine'[e] = x
    BY <2>1, <1>3
  <2>4. Running(e)' => account(e).keying = "zrtp"
    BY <1>4, <2>1 DEF Running, zvars
  <2>5. lingers' = lingers
    OBVIOUS
  <2>6. e \in lingers => call[e].role # NoSetup
    BY <1>3 DEF EngineFits, DtlsAlone
  <2>7. EngineFits(e)'
    BY <1>2, <2>2, <2>3, <2>4, <2>5, <2>6, CallKeys, FreshFits
  <2>8. x.id >= engine[e].id /\ x.id > 0
    BY <1>1, <2>2, <1>3 DEF MediaEngine
  <2> QED
    BY <1>2, <1>5, <2>1, <2>2, <2>5, <2>7, <2>8, EngineChanges
<1> QED
  BY <1>6, <1>7

(* Hold and hang-up: the engine is stopped.                                *)
LEMMA StoppedFits ==
  ASSUME Negotiated, EnginesFit, ZTypeOK, NEW e \in Ends,
         shown[e] # "none", NEW s \in {"held", "ended"}, shown' = [shown EXCEPT ![e] = s],
         StopTasks(e), StopZrtp(e), StopVideo(e), lingers' = Lingering(e), UNCHANGED session
  PROVE  EnginesFit'
<1> DEFINE x == NoEngineAt(engine[e].id)
<1>1. engine[e].id \in 0..MaxStarts /\ EngineFits(e) /\ DOMAIN engine = Ends
  BY EngineRecords DEF EnginesFit
<1>2. /\ x \in MediaEngine /\ x.id = engine[e].id /\ x.tasks = {} /\ x.dtls = "none"
      /\ ~x.stopping
      /\ x.sendKey = PlainKey /\ x.recvKey = PlainKey /\ x.queued = PlainKey
  BY <1>1, NoEngineType
<1>3. engine' = [engine EXCEPT ![e] = x]
  BY DEF StopTasks
<1> HIDE DEF x
<1>4. engine'[e] = x
  BY <1>1, <1>3
<1>5. shown'[e] = s /\ \A f \in Ends \ {e} : shown'[f] = shown[f]
  BY DEF Negotiated
<1>6. \A f \in Ends \ {e} : hs'[f] = hs[f]
  BY Elsewhere
<1>7. /\ lingers' \subseteq lingers \cup {e}
      /\ e \in lingers' => e \in lingers \/ engine[e].dtls = "shaking"
  BY DEF Lingering
<1>8. e \in lingers' => call[e].role # NoSetup
  BY <1>1, <1>7 DEF EngineFits, DtlsAlone
<1>9. EngineFits(e)'
  BY <1>2, <1>4, <1>5, <1>8, StopsRunning, PlainOwner, SilentFits
<1>10. video' \subseteq video \cup {e} /\ e \notin video'
  BY DEF StopVideo
<1>11. x.id >= engine[e].id
  BY <1>1, <1>2
<1> QED
  BY <1>2, <1>3, <1>5, <1>6, <1>7, <1>9, <1>10, <1>11, EngineChanges

(* A conference: the engine is stopped, and another is started.            *)
LEMMA MergeFits ==
  ASSUME Negotiated, EnginesFit, ZTypeOK, NEW e \in Ends, Merge(e)
  PROVE  EnginesFit'
<1>1. /\ shown[e] \in {"active", "held"} /\ StopZrtp(e) /\ lingers' = Lingering(e)
      /\ UNCHANGED session
  BY DEF Merge
<1>2. /\ engine[e].id \in 0..MaxStarts /\ EngineFits(e) /\ DOMAIN engine = Ends
      /\ engine[e].id + 1 \in 0..MaxStarts /\ engine[e].id + 1 > 0
  BY EngineRecords, RoomForOne DEF EnginesFit, Merge
<1>3. \A f \in Ends \ {e} : hs'[f] = hs[f]
  BY <1>1, Elsewhere
<1>4. /\ lingers' \subseteq lingers \cup {e}
      /\ e \in lingers' => e \in lingers \/ engine[e].dtls = "shaking"
  BY <1>1 DEF Lingering
<1>5. e \in lingers' => call[e].role # NoSetup
  BY <1>2, <1>4 DEF EngineFits, DtlsAlone
<1>6. ~Running(e)'
  BY <1>1, StopsRunning
<1>7. CASE PortTaken(e, lingers')
  <2> DEFINE x == NoEngineAt(engine[e].id + 1)
  <2>1. engine' = [engine EXCEPT ![e] = x] /\ shown' = shown /\ StopVideo(e)
    BY <1>7 DEF Merge
  <2>2. /\ x \in MediaEngine /\ x.id = engine[e].id + 1 /\ x.tasks = {} /\ x.dtls = "none"
        /\ ~x.stopping
        /\ x.sendKey = PlainKey /\ x.recvKey = PlainKey /\ x.queued = PlainKey
    BY <1>2, NoEngineType
  <2> HIDE DEF x
  <2>3. engine'[e] = x
    BY <1>2, <2>1
  <2>4. call[e].role # NoSetup
    BY <1>5, <1>7 DEF PortTaken
  <2>5. shown'[e] # "none" /\ \A f \in Ends \ {e} : shown'[f] = shown[f]
    BY <1>1, <2>1
  <2>6. EngineFits(e)'
    BY <1>1, <1>6, <2>2, <2>3, <2>4, <2>5, PlainOwner, SilentFits
  <2>7. video' \subseteq video \cup {e} /\ e \notin video'
    BY <2>1 DEF StopVideo
  <2>8. x.id >= engine[e].id
    BY <1>2, <2>2
  <2> QED
    BY <1>1, <1>3, <1>4, <2>1, <2>2, <2>5, <2>6, <2>7, <2>8, EngineChanges
<1>8. CASE ~PortTaken(e, lingers')
  <2>0. PICK leg \in {1, 2} : engine' = [engine EXCEPT ![e] = NewEngine(e, TRUE, leg)]
    BY <1>8 DEF Merge
  <2> DEFINE x == NewEngine(e, TRUE, leg)
  <2>1. /\ engine' = [engine EXCEPT ![e] = x]
        /\ shown' = [shown EXCEPT ![e] = "conference"]
        /\ RestartVideo(e)
    BY <1>8, <2>0 DEF Merge
  <2>2. /\ x \in MediaEngine /\ x.id = engine[e].id + 1 /\ x.tasks = {"send", "recv"}
        /\ x.dtls = "shaking" => call[e].role # NoSetup
        /\ ~x.stopping
        /\ x.sendKey = call[e].audio.sendKey /\ x.recvKey = call[e].audio.recvKey
        /\ x.queued = PlainKey
    BY <1>1, <1>2, NewEngineFacts
  <2> HIDE DEF x
  <2>3. engine'[e] = x
    BY <1>2, <2>1
  <2>4. shown'[e] = "conference" /\ \A f \in Ends \ {e} : shown'[f] = shown[f]
    BY <2>1 DEF Negotiated
  <2>5. EngineFits(e)'
    BY <1>1, <1>5, <1>6, <2>2, <2>3, <2>4, CallKeys, FreshFits
  <2>6. video' \subseteq video \cup {e}
    BY <2>1 DEF RestartVideo
  <2>7. x.id >= engine[e].id /\ x.id > 0
    BY <1>2, <2>2
  <2> QED
    BY <1>1, <1>3, <1>4, <2>1, <2>2, <2>4, <2>5, <2>6, <2>7, EngineChanges
<1> QED
  BY <1>7, <1>8

(* So every step of a client fits,                                         *)
LEMMA ClientFits ==
  ASSUME Negotiated, EnginesFit, ZTypeOK, NEW e \in Ends, Client(e)
  PROVE  EnginesFit'
<1>1. CASE StartMedia(e)
  BY <1>1, StartedFits DEF StartMedia
<1>2. CASE Hold(e)
  BY <1>2, StoppedFits DEF Hold
<1>3. CASE Resume(e)
  BY <1>3, StartedFits DEF Resume
<1>4. CASE Merge(e)
  BY <1>4, MergeFits
<1>5. CASE HangUp(e)
  BY <1>5, StoppedFits DEF HangUp
<1> QED
  BY <1>1, <1>2, <1>3, <1>4, <1>5 DEF Client

(* New keys from a handshake: each end decrypts with the other's.          *)
LEMMA SwitchFits ==
  ASSUME EnginesFit, NEW e \in Ends, NEW kind \in Handmade,
         NEW pair, pair \in (0..MaxStarts) \X (0..MaxStarts)
  PROVE  \E x \in MediaEngine :
             /\ SwitchKeys(e, kind, pair) = [engine EXCEPT ![e] = x]
             /\ x.id = engine[e].id /\ x.tasks = engine[e].tasks
             /\ x.dtls = engine[e].dtls /\ x.stopping = engine[e].stopping
             /\ x.sendKey = engine[e].sendKey
             /\ x.recvKey.of = Peer(e) /\ x.queued.of = e
<1> DEFINE x == [engine[e] EXCEPT !.recvKey = KeyOf(kind, Peer(e), pair),
                                  !.queued = KeyOf(kind, e, pair)]
<1>1. engine[e] \in MediaEngine /\ DOMAIN engine = Ends
  BY DEF EnginesFit
<1>2. /\ KeyOf(kind, Peer(e), pair) \in Keys /\ KeyOf(kind, Peer(e), pair).of = Peer(e)
      /\ KeyOf(kind, e, pair) \in Keys /\ KeyOf(kind, e, pair).of = e
  BY MadeKeys, PeerFacts
<1>3. /\ x \in MediaEngine /\ x.id = engine[e].id /\ x.tasks = engine[e].tasks
      /\ x.dtls = engine[e].dtls /\ x.stopping = engine[e].stopping
      /\ x.sendKey = engine[e].sendKey
      /\ x.recvKey = KeyOf(kind, Peer(e), pair) /\ x.queued = KeyOf(kind, e, pair)
  BY <1>1, <1>2 DEF MediaEngine
<1>4. SwitchKeys(e, kind, pair) = [engine EXCEPT ![e] = x]
  BY <1>1 DEF SwitchKeys
<1> HIDE DEF x
<1> QED
  BY <1>2, <1>3, <1>4

(* A step of the tasks of an end that changes no task and no role.         *)
LEMMA TaskFits ==
  ASSUME Negotiated, EnginesFit, NEW e \in Ends, NEW x \in MediaEngine,
         engine' = [engine EXCEPT ![e] = x], x.id = engine[e].id,
         UNCHANGED <<session, shown, video, lingers>>,
         \A f \in Ends \ {e} : hs'[f] = hs[f],
         Running(e)' => "recv" \in x.tasks /\ account(e).keying = "zrtp",
         x.tasks \subseteq engine[e].tasks,
         x.tasks = engine[e].tasks \/ call[e].role # NoSetup,
         x.dtls = "shaking" \/ x.stopping => call[e].role # NoSetup /\ shown[e] # "none",
         x.recvKey = engine[e].recvKey \/ x.recvKey.of = Peer(e),
         x.sendKey = engine[e].sendKey \/ x.sendKey = engine[e].queued,
         x.queued = engine[e].queued \/ x.queued = PlainKey \/ x.queued.of = e,
         \/ x.sendKey = engine[e].sendKey /\ x.recvKey = engine[e].recvKey
                /\ x.queued = engine[e].queued
         \/ account(e).keying = "zrtp" \/ call[e].role # NoSetup
  PROVE  EnginesFit'
<1>1. EngineFits(e) /\ engine'[e] = x
  BY DEF EnginesFit
<1>2. call' = call /\ setting' = setting /\ shown' = shown /\ lingers' = lingers /\ video' = video
  BY DEF session
<1>3. account(e)' = account(e)
  BY <1>2 DEF account
<1>4. DtlsAlone(e)'
  BY <1>1, <1>2 DEF EngineFits, DtlsAlone
<1>5. OwnerKnown(e)'
  BY <1>1, PlainKeyFacts DEF EngineFits, OwnerKnown
<1>6. KeysKept(e)'
  BY <1>1, <1>2, <1>3 DEF EngineFits, KeysKept, Up
<1>7. EngineFits(e)'
  BY <1>1, <1>2, <1>3, <1>4, <1>5, <1>6 DEF EngineFits, Up
<1>8. x.id >= engine[e].id /\ (e \in video => x.id > 0)
  BY EngineRecords DEF EnginesFit
<1> QED
  BY <1>2, <1>7, <1>8, EngineChanges

(* every step of a ZRTP handshake,                                         *)
LEMMA ZrtpStepFits ==
  ASSUME Negotiated, EnginesFit, ZTypeOK, HandshakeBounds, NEW e \in Ends, ZrtpStep(e)
  PROVE  EnginesFit'
<1>1. /\ Up(e, "recv") /\ Handshake(e)
      /\ UNCHANGED <<session, shown, video, lingers>>
      /\ engine' = SwitchKeys(e, "zrtp", hs[e].key) \/ engine' = engine
  BY DEF ZrtpStep
<1>2. Running(e) /\ account(e).keying = "zrtp"
  BY <1>1, HandshakeRuns DEF EnginesFit, EngineFits
<1>3. \A f \in Ends \ {e} : hs'[f] = hs[f]
  BY <1>1, Elsewhere
<1>4. hs[e].key \in (0..MaxStarts) \X (0..MaxStarts)
  BY ZrtpAssumption DEF ZTypeOK, Engine, Pair, HandshakeBounds
<1>5. /\ engine[e] \in MediaEngine /\ engine = [engine EXCEPT ![e] = engine[e]]
      /\ EngineFits(e) /\ engine[e].tasks \in SUBSET {"send", "recv"}
  BY EngineRecords DEF EnginesFit
<1>6. engine[e].dtls = "shaking" \/ engine[e].stopping => call[e].role # NoSetup /\ shown[e] # "none"
  BY <1>5 DEF EngineFits, DtlsAlone
<1>7. "recv" \in engine[e].tasks
  BY <1>1 DEF Up
<1>8. CASE engine' = engine
  BY <1>1, <1>2, <1>3, <1>5, <1>6, <1>7, <1>8, TaskFits
<1>9. CASE engine' = SwitchKeys(e, "zrtp", hs[e].key)
  <2>1. PICK x \in MediaEngine :
             /\ SwitchKeys(e, "zrtp", hs[e].key) = [engine EXCEPT ![e] = x]
             /\ x.id = engine[e].id /\ x.tasks = engine[e].tasks
             /\ x.dtls = engine[e].dtls /\ x.stopping = engine[e].stopping
             /\ x.sendKey = engine[e].sendKey
             /\ x.recvKey.of = Peer(e) /\ x.queued.of = e
    <3>1. "zrtp" \in Handmade
      BY DEF Handmade
    <3> DEFINE kind == "zrtp"
               pair == hs[e].key
    <3>2. kind \in Handmade /\ pair \in (0..MaxStarts) \X (0..MaxStarts)
      BY <1>4, <3>1
    <3> HIDE DEF kind, pair
    <3>3. \E x \in MediaEngine :
             /\ SwitchKeys(e, kind, pair) = [engine EXCEPT ![e] = x]
             /\ x.id = engine[e].id /\ x.tasks = engine[e].tasks
             /\ x.dtls = engine[e].dtls /\ x.stopping = engine[e].stopping
             /\ x.sendKey = engine[e].sendKey
             /\ x.recvKey.of = Peer(e) /\ x.queued.of = e
      BY <3>2, SwitchFits
    <3> QED
      BY <3>3 DEF kind, pair
  <2>2. engine' = [engine EXCEPT ![e] = x]
    BY <1>9, <2>1
  <2>3. "recv" \in x.tasks /\ x.tasks \subseteq engine[e].tasks
    BY <1>7, <2>1
  <2>4. x.dtls = "shaking" \/ x.stopping => call[e].role # NoSetup /\ shown[e] # "none"
    BY <1>6, <2>1
  <2> QED
    BY <1>1, <1>2, <1>3, <2>1, <2>2, <2>3, <2>4, TaskFits
<1> QED
  BY <1>1, <1>8, <1>9

(* and every step of a DTLS handshake.                                     *)
LEMMA DtlsFits ==
  ASSUME Negotiated, EnginesFit, NEW e \in Ends, Dtls(e)
  PROVE  EnginesFit'
<1>1. UNCHANGED zvars /\ UNCHANGED <<session, shown, video>>
  BY DEF Dtls, DtlsSecure, DtlsMismatch, DtlsFails, DtlsEnds
<1>2. /\ engine[e] \in MediaEngine /\ DOMAIN engine = Ends
      /\ EngineFits(e)
      /\ (Running(e)' => Running(e))
      /\ \A f \in Ends : hs'[f] = hs[f]
  BY <1>1 DEF EnginesFit, Running, zvars
<1>3. Running(e)' => "recv" \in engine[e].tasks /\ account(e).keying = "zrtp"
  BY <1>2 DEF EngineFits, Up
<1>4. engine[e].dtls = "shaking" \/ engine[e].stopping => call[e].role # NoSetup /\ shown[e] # "none"
  BY <1>2 DEF EngineFits, DtlsAlone
<1>5. CASE DtlsSecure(e)
  <2>1. DtlsPair \in (0..MaxStarts) \X (0..MaxStarts)
    BY EngineRecords, EndFacts DEF DtlsPair
  <2>2. PICK x \in MediaEngine :
             /\ SwitchKeys(e, "dtls", DtlsPair) = [engine EXCEPT ![e] = x]
             /\ x.id = engine[e].id /\ x.tasks = engine[e].tasks
             /\ x.dtls = engine[e].dtls /\ x.stopping = engine[e].stopping
             /\ x.sendKey = engine[e].sendKey
             /\ x.recvKey.of = Peer(e) /\ x.queued.of = e
    <3>1. "dtls" \in Handmade
      BY DEF Handmade
    <3> QED
      BY <2>1, <3>1, SwitchFits
  <2>3. /\ engine' = [[engine EXCEPT ![e] = x] EXCEPT ![e].dtls = "none"]
        /\ engine[e].dtls = "shaking" /\ UNCHANGED lingers
    BY <1>5, <2>2 DEF DtlsSecure, DtlsCompletes
  <2> DEFINE y == [x EXCEPT !.dtls = "none"]
  <2>4. engine' = [engine EXCEPT ![e] = y]
    BY <1>2, <2>3
  <2>5. /\ y \in MediaEngine /\ y.id = x.id /\ y.tasks = x.tasks /\ y.dtls = "none"
        /\ y.stopping = x.stopping /\ y.sendKey = x.sendKey /\ y.recvKey = x.recvKey
        /\ y.queued = x.queued
    BY DEF MediaEngine
  <2> HIDE DEF y
  <2> QED
    BY <1>1, <1>2, <1>3, <1>4, <2>2, <2>3, <2>4, <2>5, TaskFits
<1>6. CASE DtlsMismatch(e) \/ DtlsFails(e)
  <2>1. engine[e].dtls = "shaking" /\ UNCHANGED lingers
    BY <1>6 DEF DtlsMismatch, DtlsFails, DtlsCompletes
  <2>2. PICK stop \in BOOLEAN :
            engine' = [engine EXCEPT ![e] = [engine[e] EXCEPT !.dtls = "none", !.stopping = stop]]
    <3>1. CASE DtlsMismatch(e)
      <4>1. engine' = [engine EXCEPT ![e] = [engine[e] EXCEPT !.dtls = "none", !.stopping = TRUE]]
        BY <1>2, <3>1 DEF DtlsMismatch
      <4> QED
        BY <4>1
    <3>2. CASE DtlsFails(e)
      <4>1. [engine[e] EXCEPT !.dtls = "none", !.stopping = engine[e].stopping]
              = [engine[e] EXCEPT !.dtls = "none"]
        BY <1>2 DEF MediaEngine
      <4>2. engine' = [engine EXCEPT ![e] = [engine[e] EXCEPT !.dtls = "none"]]
        BY <1>2, <3>2 DEF DtlsFails
      <4>3. engine[e].stopping \in BOOLEAN
        BY EngineRecords
      <4> QED
        BY <4>1, <4>2, <4>3
    <3> QED
      BY <1>6, <3>1, <3>2
  <2> DEFINE y == [engine[e] EXCEPT !.dtls = "none", !.stopping = stop]
  <2>3. /\ y \in MediaEngine /\ y.id = engine[e].id /\ y.tasks = engine[e].tasks /\ y.dtls = "none"
        /\ y.sendKey = engine[e].sendKey /\ y.recvKey = engine[e].recvKey
        /\ y.queued = engine[e].queued
    BY <1>2 DEF MediaEngine
  <2>4. engine' = [engine EXCEPT ![e] = y]
    BY <2>2
  <2> HIDE DEF y
  <2> QED
    BY <1>1, <1>2, <1>3, <1>4, <2>1, <2>3, <2>4, TaskFits
<1>7. CASE DtlsEnds(e)
  <2>1. lingers' = lingers \ {e} /\ engine' = engine /\ call' = call /\ setting' = setting /\ hs' = hs
        /\ shown' = shown /\ video' = video
    BY <1>1, <1>7 DEF DtlsEnds, session, zvars
  <2>2. \A f \in Ends : EngineFits(f)'
    BY <2>1, EngineStays DEF EnginesFit, Running
  <2> QED
    BY <2>1, <2>2 DEF EnginesFit
<1> QED
  BY <1>5, <1>6, <1>7 DEF Dtls

(* Nothing runs at an end that shows no call yet, so that what is          *)
(* negotiated may still change.                                            *)
LEMMA WaitingFits ==
  ASSUME NEW f \in Ends, EngineFits(f), shown[f] = "none", shown'[f] \in {"none", "connecting"},
         UNCHANGED <<engine, lingers, hs>>
  PROVE  EngineFits(f)'
<1>1. /\ engine[f].tasks = {} /\ engine[f].dtls # "shaking" /\ ~engine[f].stopping
      /\ f \notin lingers /\ ~Running(f)
  BY DEF EngineFits, DtlsAlone, Up
<1>2. DtlsAlone(f)' /\ KeysKept(f)'
  BY <1>1 DEF DtlsAlone, KeysKept, Up
<1>3. OwnerKnown(f)' /\ ~Running(f)'
  BY <1>1 DEF EngineFits, OwnerKnown, Running
<1> QED
  BY <1>1, <1>2, <1>3 DEF EngineFits

(* Negotiating changes nothing that runs.                                  *)
LEMMA NegotiationFits ==
  ASSUME Negotiated, EnginesFit, MakeOffer \/ MakeAnswer \/ ReadAnswer
  PROVE  EnginesFit'
<1>1. /\ engine' = engine /\ lingers' = lingers /\ video' = video /\ hs' = hs
      /\ setting' = setting
  BY DEF MakeOffer, MakeAnswer, ReadAnswer, zvars
<1>2. PICK e \in Ends :
          /\ shown[e] = "none" /\ shown'[e] \in {"none", "connecting"}
          /\ \A f \in Ends \ {e} : shown'[f] = shown[f] /\ call'[f] = call[f]
  <2>1. CASE MakeOffer
    <3>1. shown["callee"] = "none" /\ shown' = shown /\ call' = call
      BY <2>1 DEF MakeOffer, Negotiated
    <3> QED
      BY <3>1, EndFacts
  <2>2. CASE MakeAnswer
    <3>1. /\ shown["callee"] = "none" /\ shown' = [shown EXCEPT !["callee"] = "connecting"]
          /\ \E c : call' = [call EXCEPT !["callee"] = c]
      BY <2>2 DEF MakeAnswer, Negotiated
    <3> QED
      BY <3>1, EndFacts DEF Negotiated
  <2>3. CASE ReadAnswer
    <3>1. /\ shown["caller"] = "none" /\ shown' = [shown EXCEPT !["caller"] = "connecting"]
          /\ \E c : call' = [call EXCEPT !["caller"] = c]
      BY <2>3 DEF ReadAnswer, Negotiated
    <3> QED
      BY <3>1, EndFacts DEF Negotiated
  <2> QED
    BY <2>1, <2>2, <2>3
<1>3. ASSUME NEW f \in Ends
      PROVE  EngineFits(f)'
  <2>1. EngineFits(f)
    BY DEF EnginesFit
  <2>2. CASE f = e
    BY <1>1, <1>2, <2>1, <2>2, WaitingFits
  <2>3. CASE f # e
    <3>1. Running(f)' => Running(f)
      BY <1>1 DEF Running
    <3> QED
      BY <1>1, <1>2, <2>1, <2>3, <3>1, EngineStays
  <2> QED
    BY <2>2, <2>3
<1> QED
  BY <1>1, <1>3 DEF EnginesFit

(* The send task takes a key of a handshake, of which there is one only    *)
(* with ZRTP or DTLS.                                                      *)
LEMMA TakeKeyFits ==
  ASSUME Negotiated, EnginesFit, NEW e \in Ends, TakeKey(e)
  PROVE  EnginesFit'
<1> DEFINE x == [engine[e] EXCEPT !.sendKey = engine[e].queued, !.queued = PlainKey]
<1>1. engine[e] \in MediaEngine /\ DOMAIN engine = Ends /\ EngineFits(e)
  BY DEF EnginesFit
<1>2. /\ UNCHANGED <<session, shown, video, lingers>> /\ UNCHANGED zvars
      /\ Up(e, "send") /\ engine[e].queued # PlainKey
  BY DEF TakeKey
<1>3. /\ x \in MediaEngine /\ x.id = engine[e].id /\ x.tasks = engine[e].tasks
      /\ x.dtls = engine[e].dtls /\ x.stopping = engine[e].stopping
      /\ x.recvKey = engine[e].recvKey /\ x.sendKey = engine[e].queued /\ x.queued = PlainKey
  BY <1>1, PlainKeyFacts DEF MediaEngine
<1>4. engine' = [engine EXCEPT ![e] = x]
  BY <1>1 DEF TakeKey
<1> HIDE DEF x
<1>5. engine[e].tasks \in SUBSET {"send", "recv"}
  BY EngineRecords
<1>6. account(e).keying = "zrtp" \/ call[e].role # NoSetup
  BY <1>1, <1>2 DEF EngineFits, KeysKept
<1>7. \A f \in Ends : hs'[f] = hs[f]
  BY <1>2 DEF zvars
<1>8. Running(e)' => Running(e)
  BY <1>2 DEF zvars, Running
<1>9. Running(e)' => "recv" \in x.tasks /\ account(e).keying = "zrtp"
  BY <1>1, <1>3, <1>8 DEF EngineFits, Up
<1>10. x.dtls = "shaking" \/ x.stopping => call[e].role # NoSetup /\ shown[e] # "none"
  BY <1>1, <1>3 DEF EngineFits, DtlsAlone
<1> QED
  BY <1>2, <1>3, <1>4, <1>6, <1>7, <1>9, <1>10, TaskFits

(* Only a DTLS handshake tells tasks to stop.                              *)
LEMMA SeeStopFits ==
  ASSUME Negotiated, EnginesFit, NEW e \in Ends, NEW task \in {"send", "recv"}, SeeStop(e, task)
  PROVE  EnginesFit'
<1> DEFINE x == [engine[e] EXCEPT !.tasks = @ \ {task}]
<1>1. engine[e] \in MediaEngine /\ DOMAIN engine = Ends /\ EngineFits(e)
  BY DEF EnginesFit
<1>2. /\ UNCHANGED <<session, shown, video, lingers>> /\ UNCHANGED zvars
      /\ engine[e].stopping
  BY DEF SeeStop
<1>3. /\ x \in MediaEngine /\ x.id = engine[e].id /\ x.tasks = engine[e].tasks \ {task}
      /\ x.dtls = engine[e].dtls /\ x.stopping = engine[e].stopping
      /\ x.recvKey = engine[e].recvKey /\ x.sendKey = engine[e].sendKey
      /\ x.queued = engine[e].queued
  BY <1>1 DEF MediaEngine
<1>4. engine' = [engine EXCEPT ![e] = x]
  BY <1>1 DEF SeeStop
<1> HIDE DEF x
<1>5. call[e].role # NoSetup /\ shown[e] # "none"
  BY <1>1, <1>2 DEF EngineFits, DtlsAlone
<1>6. account(e).keying = "dtls"
  BY <1>5, RoleIsDtls
<1>7. \A f \in Ends : hs'[f] = hs[f]
  BY <1>2 DEF zvars
<1>8. ~Running(e)'
  BY <1>1, <1>2, <1>6 DEF zvars, Running, EngineFits
<1> QED
  BY <1>2, <1>3, <1>4, <1>5, <1>7, <1>8, TaskFits

(* At first there are no engines.                                          *)
LEMMA EnginesFitInitially == Init => EnginesFit
<1> SUFFICES ASSUME Init PROVE EnginesFit
  OBVIOUS
<1>1. /\ engine = [e \in Ends |-> NoEngineAt(0)] /\ video = {} /\ lingers = {}
      /\ shown = [e \in Ends |-> "none"]
  BY DEF Init
<1>2. 0 \in 0..MaxStarts
  BY ZrtpAssumption
<1>3. ASSUME NEW e \in Ends PROVE ~Running(e)
  BY DEF Init, ZInit, Running, NoEngine
<1>4. ASSUME NEW e \in Ends PROVE EngineFits(e)
  <2>1. /\ engine[e].tasks = {} /\ engine[e].dtls = "none" /\ ~engine[e].stopping
        /\ engine[e].sendKey = PlainKey /\ engine[e].recvKey = PlainKey
        /\ engine[e].queued = PlainKey /\ shown[e] = "none"
    BY <1>1, <1>2, NoEngineType
  <2>2. DtlsAlone(e) /\ OwnerKnown(e) /\ KeysKept(e)
    BY <1>1, <2>1, PlainKeyFacts DEF DtlsAlone, OwnerKnown, KeysKept, Up
  <2> QED
    BY <1>3, <2>1, <2>2 DEF EngineFits
<1>5. engine \in [Ends -> MediaEngine]
  BY <1>1, <1>2, NoEngineType
<1> QED
  BY <1>1, <1>4, <1>5 DEF EnginesFit

(* What the invariant is about, left alone.                                *)
LEMMA EnginesFitStay ==
  ASSUME EnginesFit, UNCHANGED <<session, shown, engine, video, lingers, hs>>
  PROVE  EnginesFit'
<1>1. /\ engine' = engine /\ shown' = shown /\ video' = video /\ lingers' = lingers
      /\ call' = call /\ setting' = setting /\ hs' = hs
  BY DEF session
<1>2. ASSUME NEW f \in Ends PROVE EngineFits(f)'
  BY <1>1, EngineStays DEF EnginesFit, Running
<1> QED
  BY <1>1, <1>2 DEF EnginesFit

(* Every step keeps the media engines fit.                                 *)
LEMMA EnginesFitStep ==
  Negotiated /\ ZTypeOK /\ HandshakeBounds /\ EnginesFit /\ [Next]_vars => EnginesFit'
<1> SUFFICES ASSUME Negotiated, ZTypeOK, HandshakeBounds, EnginesFit, [Next]_vars
             PROVE  EnginesFit'
  OBVIOUS
<1>1. CASE MakeOffer \/ MakeAnswer \/ ReadAnswer
  BY <1>1, NegotiationFits
<1>2. CASE \E e \in Ends : Client(e)
  BY <1>2, ClientFits
<1>3. CASE \E e \in Ends : ZrtpStep(e)
  BY <1>3, ZrtpStepFits
<1>4. CASE LoseZrtp
  BY <1>4, EnginesFitStay DEF LoseZrtp, Lose
<1>5. CASE \E e \in Ends : Dtls(e)
  BY <1>5, DtlsFits
<1>6. CASE \E e \in Ends : TakeKey(e) \/ \E task \in {"send", "recv"} : SeeStop(e, task)
  BY <1>6, TakeKeyFits, SeeStopFits
<1>7. CASE \E e \in Ends : ReceiveFrame(e) \/ \E what \in {"voice", "noise"} : SendFrame(e, what)
  BY <1>7, EnginesFitStay DEF ReceiveFrame, SendFrame, zvars
<1>8. CASE FilmFrame \/ ShowVideo \/ LosePacket
  BY <1>8, EnginesFitStay DEF FilmFrame, ShowVideo, LosePacket, zvars
<1>9. CASE UNCHANGED vars
  BY <1>9, EnginesFitStay DEF vars, zvars
<1> QED
  BY <1>1, <1>2, <1>3, <1>4, <1>5, <1>6, <1>7, <1>8, <1>9 DEF Next

(* Handshakes and media engines, in every session.                         *)
LEMMA EnginesAlways == Spec => [](Negotiated /\ ZInv /\ HandshakeBounds /\ EnginesFit)
<1>1. ZInv => ZTypeOK
  BY DEF ZInv
<1> QED
  BY <1>1, EnginesFitInitially, EnginesFitStep, NegotiatedAlways, SessionRunsZrtp,
     HandshakeBounded, PTL DEF Spec

(* A call that is shown as active has audio after any number of holds,     *)
(* resumes and conferences, unless DTLS is in play (the tasks MediaEngine  *)
(* ::stop waits for have given their port back).                           *)
THEOREM RestartsAlwaysBind == Spec => []RestartsBind
<1>1. EnginesFit => RestartsBind
  BY DEF EnginesFit, EngineFits, DtlsAlone, RestartsBind
<1> QED
  BY <1>1, EnginesAlways, PTL

(* The ends use the keys of one handshake crosswise, whichever of the two  *)
(* switched first and however often each of them started again             *)
(* (handle_zrtp_outcomes, handle_dtls_outcome).                            *)
THEOREM KeysPairUp == Spec => []SecurePaired
<1>1. EnginesFit => SecurePaired
  <2> SUFFICES ASSUME EnginesFit, NEW e \in Ends, NEW mine, mine = engine[e].recvKey,
                      NEW theirs, theirs = engine[Peer(e)].sendKey,
                      mine.kind \in {"zrtp", "dtls"}, theirs.kind = mine.kind,
                      theirs.session = mine.session
               PROVE  mine = theirs
    BY DEF SecurePaired
  <2>1. Peer(e) \in Ends /\ mine \in Keys /\ theirs \in Keys
    BY PeerFacts, EngineRecords
  <2>2. mine.of = Peer(e) /\ theirs.of = Peer(e)
    BY <2>1 DEF EnginesFit, EngineFits, OwnerKnown, Handmade
  <2>3. ASSUME NEW k \in Keys
        PROVE  k = [kind |-> k.kind, of |-> k.of, session |-> k.session]
    BY DEF Keys, KeyOf, PlainKey, SdesKey
  <2> QED
    BY <2>1, <2>2, <2>3
<1> QED
  BY <1>1, EnginesAlways, PTL

-----------------------------------------------------------------------------
(* The video.                                                              *)

(* The packets of a frame have the numbers its place in the stream gives   *)
(* them; a camera that is new has sent none.                               *)
Sendable == packets \cup fragments

SameFrame(p, q) == p.engine = q.engine /\ p.ts = q.ts
StreamFits ==
    /\ VTypeOK
    /\ \A p \in Sendable :
           /\ p.engine <= camera.engine
           /\ p.engine = camera.engine => p.ts < camera.ts
    /\ \A p, q \in Sendable :
           SameFrame(p, q) /\ Unwrapped(p) /\ Unwrapped(q) => p.seq - p.part = q.seq - q.part
    /\ \A p, q \in fragments : p.ts = q.ts
    /\ OneFrameAtATime

(* The camera's engine is one the caller has started.                      *)
CameraKnown == camera.engine <= engine["caller"].id

(* What a packet is made of,                                               *)
LEMMA PacketFields ==
  ASSUME NEW p \in Packet
  PROVE  /\ p.engine \in Nat /\ p.ts \in Nat /\ p.part \in Nat \ {0}
         /\ p.seq \in 0..SeqNumbers - 1 /\ p.last \in BOOLEAN
BY DEF Packet

(* and a camera.                                                           *)
LEMMA CameraFields ==
  ASSUME VTypeOK
  PROVE  /\ camera.engine \in Nat /\ camera.ts \in Nat /\ camera.seq \in 0..SeqNumbers - 1
         /\ camera.filmed \in Nat
BY DEF VTypeOK

(* The number of a part of a frame that does not wrap round.               *)
LEMMA FragmentFacts ==
  ASSUME VTypeOK, NEW parts \in Nat \ {0}, NEW p \in Fragments(parts)
  PROVE  /\ p \in Packet /\ p.engine = camera.engine /\ p.ts = camera.ts
         /\ Unwrapped(p) => p.seq - p.part = camera.seq - 1
<1>1. PICK n \in 1..parts :
          p = [engine |-> camera.engine, ts |-> camera.ts, part |-> n, last |-> n = parts,
               seq |-> (camera.seq + n - 1) % SeqNumbers]
  BY DEF Fragments
<1> DEFINE k == (camera.seq + n - 1) % SeqNumbers
<1>2. camera.seq \in 0..SeqNumbers - 1 /\ n \in Nat \ {0} /\ SeqNumbers \in Nat \ {0}
  BY SeqNumbersAssumption, CameraFields
<1>3. /\ k \in 0..SeqNumbers - 1
      /\ (n <= k + 1 => k = camera.seq + n - 1)
  BY <1>2
<1>4. p.engine = camera.engine /\ p.ts = camera.ts /\ p.part = n /\ p.seq = k
  BY <1>1
<1> HIDE DEF k
<1>5. p \in Packet
  BY <1>1, <1>2, <1>3, <1>4, CameraFields DEF Packet
<1> QED
  BY <1>2, <1>3, <1>4, <1>5 DEF Unwrapped

(* A new frame has a timestamp no packet has.                              *)
LEMMA FilmFits ==
  ASSUME StreamFits, NEW parts \in Nat \ {0}, Film(parts)
  PROVE  StreamFits' /\ camera'.engine = camera.engine
<1>1. /\ packets' = packets \cup Fragments(parts) /\ fragments' = fragments /\ decoded' = decoded
      /\ camera' = [camera EXCEPT !.seq = (@ + parts) % SeqNumbers, !.ts = @ + 1, !.filmed = @ + 1]
  BY DEF Film
<1>2. VTypeOK /\ Sendable \subseteq Packet
  BY DEF StreamFits, VTypeOK, Sendable
<1>3. /\ (camera.seq + parts) % SeqNumbers \in 0..SeqNumbers - 1
      /\ camera.ts + 1 \in Nat /\ camera.filmed + 1 \in Nat
  BY <1>2, SeqNumbersAssumption, CameraFields
<1>4. /\ camera' \in [engine: Nat, seq: 0..SeqNumbers - 1, ts: Nat, filmed: Nat]
      /\ camera'.engine = camera.engine /\ camera'.ts = camera.ts + 1
  <2>1. camera \in [engine: Nat, seq: 0..SeqNumbers - 1, ts: Nat, filmed: Nat]
    BY <1>2 DEF VTypeOK
  <2> QED
    BY <1>1, <1>3, <2>1, Zenon
<1>5. VTypeOK'
  BY <1>1, <1>2, <1>4, FragmentFacts DEF VTypeOK
<1>6. Sendable' = Sendable \cup Fragments(parts)
  BY <1>1 DEF Sendable
<1>7. ASSUME NEW p \in Sendable'
      PROVE  /\ p.engine <= camera'.engine
             /\ p.engine = camera'.engine => p.ts < camera'.ts
  BY <1>2, <1>4, <1>6, <1>7, FragmentFacts, CameraFields, PacketFields DEF StreamFits
<1>8. ASSUME NEW p \in Sendable', NEW q \in Sendable', SameFrame(p, q), Unwrapped(p), Unwrapped(q)
      PROVE  p.seq - p.part = q.seq - q.part
  <2>1. CASE p \in Sendable /\ q \in Sendable
    BY <1>8, <2>1 DEF StreamFits
  <2>2. CASE p \in Fragments(parts) /\ q \in Fragments(parts)
    BY <1>2, <1>8, <2>2, FragmentFacts
  <2>3. ASSUME NEW x \in Sendable, NEW y \in Fragments(parts)
        PROVE  ~SameFrame(x, y) /\ ~SameFrame(y, x)
    BY <1>2, FragmentFacts, CameraFields, PacketFields DEF StreamFits, SameFrame
  <2> QED
    BY <1>6, <1>8, <2>1, <2>2, <2>3
<1>9. OneFrameAtATime'
  BY <1>1 DEF StreamFits, OneFrameAtATime, Unwrapped
<1>10. \A p, q \in fragments' : p.ts = q.ts
  BY <1>1 DEF StreamFits
<1>11. \A p, q \in Sendable' :
           SameFrame(p, q) /\ Unwrapped(p) /\ Unwrapped(q) => p.seq - p.part = q.seq - q.part
  BY <1>8
<1> QED
  BY <1>4, <1>5, <1>7, <1>9, <1>10, <1>11 DEF StreamFits, SameFrame, Unwrapped

(* A frame that is put together is one frame.                              *)
LEMMA FlushFits ==
  ASSUME StreamFits, Flush
  PROVE  decoded' \subseteq Packet /\ OneFrameAtATime'
<1>1. decoded' = decoded \/ decoded' \subseteq fragments
  BY DEF Flush, Reassembled
<1>2. fragments \subseteq Packet /\ decoded \subseteq Packet
  BY DEF StreamFits, VTypeOK
<1>3. CASE decoded' = decoded
  BY <1>2, <1>3 DEF StreamFits, OneFrameAtATime, Unwrapped
<1>4. CASE decoded' \subseteq fragments
  <2> SUFFICES ASSUME NEW p \in decoded', NEW q \in decoded', p.engine = q.engine
               PROVE  /\ p.ts = q.ts
                      /\ Unwrapped(p) /\ Unwrapped(q) => (p.part < q.part <=> p.seq < q.seq)
    BY <1>2, <1>4 DEF OneFrameAtATime, Unwrapped
  <2>1. p \in fragments /\ q \in fragments /\ p \in Sendable /\ q \in Sendable
    BY <1>4 DEF Sendable
  <2>2. p.ts = q.ts
    BY <2>1 DEF StreamFits
  <2>3. Unwrapped(p) /\ Unwrapped(q) => p.seq - p.part = q.seq - q.part
    BY <2>1, <2>2 DEF StreamFits, SameFrame
  <2> QED
    BY <1>2, <2>1, <2>2, <2>3, PacketFields
<1> QED
  BY <1>1, <1>3, <1>4

(* What takes packets away from the stream, or moves them on.              *)
LEMMA FewerFit ==
  ASSUME StreamFits, camera' = camera,
         packets' \subseteq packets, fragments' \subseteq Sendable,
         \A p, q \in fragments' : p.ts = q.ts,
         decoded' \subseteq Packet, OneFrameAtATime'
  PROVE  StreamFits'
<1>1. Sendable' \subseteq Sendable
  BY DEF Sendable
<1>2. VTypeOK'
  BY DEF StreamFits, VTypeOK, Sendable
<1> QED
  BY <1>1, <1>2 DEF StreamFits, SameFrame, Unwrapped

(* What the screen does with packets, or the network.                      *)
LEMMA ScreenFits ==
  ASSUME StreamFits, Stall \/ StopScreen \/ (\E p \in packets : Arrive(p) \/ Drop(p))
  PROVE  StreamFits' /\ camera' = camera
<1>1. VTypeOK
  BY DEF StreamFits
<1>2. CASE Stall
  BY <1>2, FlushFits, FewerFit DEF Stall
<1>3. CASE StopScreen
  <2>1. decoded' \subseteq Packet /\ OneFrameAtATime'
    BY <1>3 DEF StopScreen, OneFrameAtATime
  <2> QED
    BY <1>3, <2>1, FewerFit DEF StopScreen
<1>4. ASSUME NEW p \in packets, Drop(p)
      PROVE  StreamFits' /\ camera' = camera
  <2>1. /\ camera' = camera /\ packets' \subseteq packets /\ fragments' = fragments
        /\ decoded' = decoded
    BY <1>4 DEF Drop
  <2>2. decoded' \subseteq Packet /\ OneFrameAtATime'
    BY <1>1, <2>1 DEF VTypeOK, StreamFits, OneFrameAtATime, Unwrapped
  <2>3. fragments' \subseteq Sendable /\ \A x, y \in fragments' : x.ts = y.ts
    BY <2>1 DEF Sendable, StreamFits
  <2> QED
    BY <2>1, <2>2, <2>3, FewerFit
<1>5. ASSUME NEW p \in packets, Arrive(p)
      PROVE  StreamFits' /\ camera' = camera
  <2>1. camera' = camera /\ packets' \subseteq packets
    BY <1>5 DEF Arrive
  <2>2. CASE \E q \in fragments : q.ts # p.ts
    <3>1. Flush /\ fragments' = {p}
      BY <1>5, <2>2 DEF Arrive
    <3>2. fragments' \subseteq Sendable /\ \A x, y \in fragments' : x.ts = y.ts
      BY <3>1 DEF Sendable
    <3> QED
      BY <2>1, <3>1, <3>2, FlushFits, FewerFit
  <2>3. CASE ~\E q \in fragments : q.ts # p.ts
    <3>1. fragments' = {q \in fragments : q.seq # p.seq} \cup {p} /\ decoded' = decoded
      BY <1>5, <2>3 DEF Arrive
    <3>2. fragments' \subseteq Sendable /\ \A x, y \in fragments' : x.ts = y.ts
      BY <2>3, <3>1 DEF Sendable
    <3>3. decoded' \subseteq Packet /\ OneFrameAtATime'
      BY <1>1, <3>1 DEF VTypeOK, StreamFits, OneFrameAtATime, Unwrapped
    <3> QED
      BY <2>1, <3>2, <3>3, FewerFit
  <2> QED
    BY <2>2, <2>3
<1> QED
  BY <1>2, <1>3, <1>4, <1>5 DEF Stall, StopScreen

(* A new camera starts with number and timestamp nought: so no packet may  *)
(* be of its engine yet.                                                   *)
LEMMA NewCameraFits ==
  ASSUME StreamFits, NEW k \in Nat, camera.engine < k, NewCamera(k)
  PROVE  StreamFits' /\ camera'.engine = k
<1>1. /\ packets' = packets /\ fragments' = fragments /\ decoded' = decoded
      /\ camera' = [camera EXCEPT !.engine = k, !.seq = 0, !.ts = 0]
  BY DEF NewCamera
<1>2. VTypeOK /\ Sendable \subseteq Packet /\ Sendable' = Sendable
  BY <1>1 DEF StreamFits, VTypeOK, Sendable
<1>3. 0 \in 0..SeqNumbers - 1
  BY SeqNumbersAssumption
<1>4. /\ camera' \in [engine: Nat, seq: 0..SeqNumbers - 1, ts: Nat, filmed: Nat]
      /\ camera'.engine = k
  BY <1>1, <1>2, <1>3 DEF VTypeOK
<1>5. VTypeOK'
  BY <1>1, <1>2, <1>4 DEF VTypeOK
<1>6. ASSUME NEW p \in Sendable
      PROVE  p.engine < k
  BY <1>2, <1>6, CameraFields, PacketFields DEF StreamFits
<1>7. \A p \in Sendable : p.engine <= k /\ p.engine # k
  BY <1>2, <1>6, PacketFields
<1>8. OneFrameAtATime'
  BY <1>1 DEF StreamFits, OneFrameAtATime, Unwrapped
<1> QED
  BY <1>1, <1>2, <1>4, <1>5, <1>7, <1>8 DEF StreamFits, SameFrame, Unwrapped

(* The stream, left alone.                                                 *)
LEMMA StreamStays ==
  ASSUME StreamFits, UNCHANGED stream
  PROVE  StreamFits'
<1>1. camera' = camera /\ packets' = packets /\ fragments' = fragments /\ decoded' = decoded
  BY DEF stream
<1>2. decoded' \subseteq Packet /\ OneFrameAtATime'
  BY <1>1 DEF StreamFits, VTypeOK, OneFrameAtATime, Unwrapped
<1>3. fragments' \subseteq Sendable /\ \A p, q \in fragments' : p.ts = q.ts
  BY <1>1 DEF StreamFits, Sendable
<1> QED
  BY <1>1, <1>2, <1>3, FewerFit

(* The numbers of the caller's engines only grow, and a camera is started  *)
(* with the newest.                                                        *)
LEMMA StreamMoves ==
  ASSUME StreamFits, CameraKnown, EnginesFit, NEW e \in Ends, NEW x,
         engine' = [engine EXCEPT ![e] = x], x.id \in Nat, x.id >= engine[e].id,
         \/ UNCHANGED stream \/ StopScreen
         \/ e = "caller" /\ x.id = engine[e].id + 1 /\ NewCamera(engine[e].id + 1)
  PROVE  StreamFits' /\ CameraKnown'
<1>1. engine["caller"].id \in Nat /\ engine[e].id \in Nat
  BY EngineRecords, EndFacts
<1>2. engine'[e] = x /\ \A f \in Ends \ {e} : engine'[f] = engine[f]
  BY DEF EnginesFit
<1>3. engine'["caller"].id \in Nat /\ engine'["caller"].id >= engine["caller"].id
  BY <1>1, <1>2, EndFacts
<1>4. camera.engine \in Nat /\ camera.engine <= engine["caller"].id
  BY CameraFields DEF StreamFits, CameraKnown
<1>5. CASE UNCHANGED stream \/ StopScreen
  <2>1. StreamFits' /\ camera' = camera
    BY <1>5, StreamStays, ScreenFits DEF stream
  <2> QED
    BY <1>1, <1>3, <1>4, <2>1 DEF CameraKnown
<1>6. CASE e = "caller" /\ x.id = engine[e].id + 1 /\ NewCamera(engine[e].id + 1)
  <2>1. engine[e].id + 1 \in Nat /\ camera.engine < engine[e].id + 1
    BY <1>1, <1>4, <1>6
  <2>2. StreamFits' /\ camera'.engine = engine[e].id + 1
    BY <1>6, <2>1, NewCameraFits
  <2>3. engine'["caller"].id = engine[e].id + 1
    BY <1>2, <1>6
  <2> QED
    BY <2>1, <2>2, <2>3 DEF CameraKnown
<1> QED
  BY <1>5, <1>6

(* Starting an engine,                                                     *)
LEMMA StartedStream ==
  ASSUME StreamFits, CameraKnown, EnginesFit, NEW e \in Ends, Started(e)
  PROVE  StreamFits' /\ CameraKnown'
<1>1. /\ engine[e].id \in Nat /\ engine[e].id + 1 \in Nat /\ engine[e].id + 1 >= engine[e].id
      /\ engine[e] \in MediaEngine
  BY EngineRecords
<1>2. CASE PortTaken(e, lingers)
  <2> DEFINE x == [engine[e] EXCEPT !.id = @ + 1]
  <2>1. engine' = [engine EXCEPT ![e] = x] /\ UNCHANGED stream
    BY <1>2 DEF Started
  <2>2. x.id = engine[e].id + 1
    BY <1>1 DEF MediaEngine
  <2> HIDE DEF x
  <2> QED
    BY <1>1, <2>1, <2>2, StreamMoves
<1>3. CASE ~PortTaken(e, lingers)
  <2> DEFINE x == NewEngine(e, FALSE, 1)
  <2>1. /\ engine' = [engine EXCEPT ![e] = x]
        /\ UNCHANGED stream \/ (e = "caller" /\ NewCamera(engine[e].id + 1))
    BY <1>3 DEF Started, StartVideo, NextCamera
  <2>2. x.id = engine[e].id + 1
    BY DEF NewEngine
  <2> HIDE DEF x
  <2> QED
    BY <1>1, <2>1, <2>2, StreamMoves
<1> QED
  BY <1>2, <1>3

(* stopping it,                                                            *)
LEMMA StoppedStream ==
  ASSUME StreamFits, CameraKnown, EnginesFit, NEW e \in Ends, StopTasks(e), StopVideo(e)
  PROVE  StreamFits' /\ CameraKnown'
<1> DEFINE x == NoEngineAt(engine[e].id)
<1>1. engine' = [engine EXCEPT ![e] = x] /\ (UNCHANGED stream \/ StopScreen)
  BY DEF StopTasks, StopVideo
<1>2. x.id = engine[e].id /\ engine[e].id \in Nat
  BY EngineRecords DEF NoEngineAt
<1>3. x.id >= engine[e].id
  BY <1>2
<1> HIDE DEF x
<1> QED
  BY <1>1, <1>2, <1>3, StreamMoves

(* and both for a conference.                                              *)
LEMMA MergeStream ==
  ASSUME StreamFits, CameraKnown, EnginesFit, NEW e \in Ends, Merge(e)
  PROVE  StreamFits' /\ CameraKnown'
<1>1. engine[e].id + 1 \in Nat /\ engine[e].id + 1 >= engine[e].id
  BY EngineRecords
<1>2. PICK x : engine' = [engine EXCEPT ![e] = x] /\ x.id = engine[e].id + 1
  <2>1. NoEngineAt(engine[e].id + 1).id = engine[e].id + 1
    BY DEF NoEngineAt
  <2>2. \A leg \in {1, 2} : NewEngine(e, TRUE, leg).id = engine[e].id + 1
    BY DEF NewEngine
  <2>3. \/ engine' = [engine EXCEPT ![e] = NoEngineAt(engine[e].id + 1)]
        \/ \E leg \in {1, 2} : engine' = [engine EXCEPT ![e] = NewEngine(e, TRUE, leg)]
    BY DEF Merge
  <2> QED
    BY <2>1, <2>2, <2>3
<1>3. UNCHANGED stream \/ StopScreen \/ (e = "caller" /\ NewCamera(engine[e].id + 1))
  BY DEF Merge, StopVideo, RestartVideo, NextCamera
<1> QED
  BY <1>1, <1>2, <1>3, StreamMoves

(* So no client mixes frames,                                              *)
LEMMA ClientStream ==
  ASSUME StreamFits, CameraKnown, EnginesFit, NEW e \in Ends, Client(e)
  PROVE  StreamFits' /\ CameraKnown'
<1>1. CASE StartMedia(e)
  BY <1>1, StartedStream DEF StartMedia
<1>2. CASE Hold(e)
  BY <1>2, StoppedStream DEF Hold
<1>3. CASE Resume(e)
  BY <1>3, StartedStream DEF Resume
<1>4. CASE Merge(e)
  BY <1>4, MergeStream
<1>5. CASE HangUp(e)
  BY <1>5, StoppedStream DEF HangUp
<1> QED
  BY <1>1, <1>2, <1>3, <1>4, <1>5 DEF Client

(* The tasks change no engine's number.                                    *)
LEMMA TaskStream ==
  ASSUME StreamFits, CameraKnown, EnginesFit, UNCHANGED stream,
         \A e \in Ends : engine'[e].id = engine[e].id
  PROVE  StreamFits' /\ CameraKnown'
<1>1. camera' = camera
  BY DEF stream
<1> QED
  BY <1>1, StreamStays, EndFacts DEF CameraKnown

(* which have the same number all their life.                              *)
LEMMA TasksKeepIds ==
  ASSUME EnginesFit, NEW e \in Ends,
         ZrtpStep(e) \/ Dtls(e) \/ TakeKey(e) \/ (\E task \in {"send", "recv"} : SeeStop(e, task))
  PROVE  UNCHANGED stream /\ \A f \in Ends : engine'[f].id = engine[f].id
<1>1. UNCHANGED stream
  BY DEF ZrtpStep, Dtls, DtlsSecure, DtlsMismatch, DtlsFails, DtlsEnds, TakeKey, SeeStop
<1>2. engine \in [Ends -> MediaEngine] /\ engine[e] \in MediaEngine
  BY DEF EnginesFit
<1>3. ASSUME NEW x, x.id = engine[e].id, engine' = [engine EXCEPT ![e] = x]
      PROVE  \A f \in Ends : engine'[f].id = engine[f].id
  BY <1>2, <1>3
<1>4. ASSUME NEW kind, NEW pair
      PROVE  /\ SwitchKeys(e, kind, pair)
                    = [engine EXCEPT ![e] = [engine[e] EXCEPT !.recvKey = KeyOf(kind, Peer(e), pair),
                                                              !.queued = KeyOf(kind, e, pair)]]
  BY <1>2 DEF SwitchKeys
<1>5. CASE ZrtpStep(e)
  <2>1. engine' = engine \/ engine' = SwitchKeys(e, "zrtp", hs[e].key)
    BY <1>5 DEF ZrtpStep
  <2>2. CASE engine' = engine
    BY <1>1, <2>2
  <2>3. CASE engine' = SwitchKeys(e, "zrtp", hs[e].key)
    <3> DEFINE x == [engine[e] EXCEPT !.recvKey = KeyOf("zrtp", Peer(e), hs[e].key),
                                      !.queued = KeyOf("zrtp", e, hs[e].key)]
    <3>1. x.id = engine[e].id
      BY <1>2 DEF MediaEngine
    <3>2. engine' = [engine EXCEPT ![e] = x]
      BY <1>4, <2>3
    <3> HIDE DEF x
    <3> QED
      BY <1>1, <1>3, <3>1, <3>2
  <2> QED
    BY <2>1, <2>2, <2>3
<1>6. CASE DtlsSecure(e)
  <2> DEFINE x == [engine[e] EXCEPT !.recvKey = KeyOf("dtls", Peer(e), DtlsPair),
                                    !.queued = KeyOf("dtls", e, DtlsPair)]
             y == [x EXCEPT !.dtls = "none"]
  <2>1. y.id = engine[e].id
    BY <1>2 DEF MediaEngine
  <2>2. SwitchKeys(e, "dtls", DtlsPair) = [engine EXCEPT ![e] = x]
    BY <1>4
  <2> HIDE DEF x
  <2>3. engine' = [engine EXCEPT ![e] = y]
    BY <1>2, <1>6, <2>2 DEF DtlsSecure
  <2> HIDE DEF y
  <2> QED
    BY <1>1, <1>3, <2>1, <2>3
<1>7. CASE DtlsMismatch(e)
  <2> DEFINE x == [engine[e] EXCEPT !.dtls = "none", !.stopping = TRUE]
  <2>1. x.id = engine[e].id
    BY <1>2 DEF MediaEngine
  <2>2. engine' = [engine EXCEPT ![e] = x]
    BY <1>2, <1>7 DEF DtlsMismatch
  <2> HIDE DEF x
  <2> QED
    BY <1>1, <1>3, <2>1, <2>2
<1>8. CASE DtlsFails(e)
  <2> DEFINE x == [engine[e] EXCEPT !.dtls = "none"]
  <2>1. x.id = engine[e].id
    BY <1>2 DEF MediaEngine
  <2>2. engine' = [engine EXCEPT ![e] = x]
    BY <1>2, <1>8 DEF DtlsFails
  <2> HIDE DEF x
  <2> QED
    BY <1>1, <1>3, <2>1, <2>2
<1>9. CASE DtlsEnds(e)
  BY <1>9 DEF DtlsEnds
<1>10. CASE TakeKey(e)
  <2> DEFINE x == [engine[e] EXCEPT !.sendKey = engine[e].queued, !.queued = PlainKey]
  <2>1. x.id = engine[e].id
    BY <1>2 DEF MediaEngine
  <2>2. engine' = [engine EXCEPT ![e] = x]
    BY <1>2, <1>10 DEF TakeKey
  <2> HIDE DEF x
  <2> QED
    BY <1>1, <1>3, <2>1, <2>2
<1>11. ASSUME NEW task \in {"send", "recv"}, SeeStop(e, task)
       PROVE  \A f \in Ends : engine'[f].id = engine[f].id
  <2> DEFINE x == [engine[e] EXCEPT !.tasks = @ \ {task}]
  <2>1. x.id = engine[e].id
    BY <1>2 DEF MediaEngine
  <2>2. engine' = [engine EXCEPT ![e] = x]
    BY <1>2, <1>11 DEF SeeStop
  <2> HIDE DEF x
  <2> QED
    BY <1>1, <1>3, <2>1, <2>2
<1> QED
  BY <1>1, <1>5, <1>6, <1>7, <1>8, <1>9, <1>10, <1>11 DEF Dtls

(* At first there is no packet.                                            *)
LEMMA StreamInitially == Init => StreamFits /\ CameraKnown
<1> SUFFICES ASSUME Init PROVE StreamFits /\ CameraKnown
  OBVIOUS
<1>1. /\ camera = [engine |-> 0, seq |-> 0, ts |-> 0, filmed |-> 0]
      /\ packets = {} /\ fragments = {} /\ decoded = {}
  BY DEF Init, VInit
<1>2. 0 \in 0..SeqNumbers - 1
  BY SeqNumbersAssumption
<1>3. VTypeOK
  BY <1>1, <1>2 DEF VTypeOK
<1>4. StreamFits
  BY <1>1, <1>3 DEF StreamFits, Sendable, OneFrameAtATime
<1>5. CameraKnown
  BY <1>1, EndFacts DEF CameraKnown, Init, NoEngineAt
<1> QED
  BY <1>4, <1>5

(* Every step keeps the stream fit.                                        *)
LEMMA StreamStep ==
  Negotiated /\ EnginesFit /\ StreamFits /\ CameraKnown /\ [Next]_vars
      => StreamFits' /\ CameraKnown'
<1> SUFFICES ASSUME Negotiated, EnginesFit, StreamFits, CameraKnown, [Next]_vars
             PROVE  StreamFits' /\ CameraKnown'
  OBVIOUS
<1>1. CASE UNCHANGED <<stream, engine>>
  BY <1>1, TaskStream
<1>2. CASE \E e \in Ends : Client(e)
  BY <1>2, ClientStream
<1>3. CASE \E e \in Ends : ZrtpStep(e) \/ Dtls(e) \/ TakeKey(e)
                               \/ (\E task \in {"send", "recv"} : SeeStop(e, task))
  BY <1>3, TasksKeepIds, TaskStream
<1>4. CASE FilmFrame
  <2> DEFINE parts == setting.film[camera.filmed + 1]
  <2>1. camera.filmed < Len(setting.film) /\ Film(parts) /\ engine' = engine
    BY <1>4 DEF FilmFrame
  <2>2. setting \in Scenarios /\ camera.filmed \in Nat
    BY CameraFields DEF Negotiated, StreamFits
  <2>3. Len(setting.film) \in Nat
    BY <2>2, ScenariosAssumption
  <2>4. parts \in Nat \ {0}
    BY <2>1, <2>2, <2>3, AccountType
  <2> HIDE DEF parts
  <2> QED
    BY <2>1, <2>4, FilmFits DEF CameraKnown
<1>5. CASE ShowVideo \/ LosePacket
  BY <1>5, ScreenFits DEF ShowVideo, LosePacket, CameraKnown
<1>6. CASE MakeOffer \/ MakeAnswer \/ ReadAnswer
  BY <1>1, <1>6 DEF MakeOffer, MakeAnswer, ReadAnswer
<1>7. CASE LoseZrtp
  BY <1>1, <1>7 DEF LoseZrtp
<1>8. CASE \E e \in Ends : ReceiveFrame(e) \/ \E what \in {"voice", "noise"} : SendFrame(e, what)
  BY <1>1, <1>8 DEF ReceiveFrame, SendFrame
<1>9. CASE UNCHANGED vars
  BY <1>1, <1>9 DEF vars
<1> QED
  BY <1>2, <1>3, <1>4, <1>5, <1>6, <1>7, <1>8, <1>9 DEF Next

(* The decoder is never given parts of two frames of one engine, nor parts *)
(* of one in another order than they were cut in, however packets are lost *)
(* or overtake each other and whenever either end starts again; for any    *)
(* number of parts of a frame and any number of sequence numbers           *)
(* (recv_loop, reassemble_nal_units).                                      *)
THEOREM FramesAreNotMixed == Spec => []OneFrameAtATime
<1>1. StreamFits => OneFrameAtATime
  BY DEF StreamFits
<1> QED
  BY <1>1, StreamInitially, StreamStep, EnginesAlways, PTL DEF Spec

-----------------------------------------------------------------------------
(* The voice.                                                              *)

(* A voice frame is what its sender's call makes of it.                    *)
FrameOf(e, f) ==
    /\ shown[e] # "none"
    /\ f.codec = call[e].codec
    /\ f.what \in {"voice", "noise"}
    /\ f.what = "noise" => ComfortNoise(e)
    /\ ~Keyed(e) => f.key = call[e].audio.sendKey

FrameFits == air # NoFrame => air.to \in Ends /\ FrameOf(Peer(air.to), air)

(* An engine without a handshake has the keys of its call.                 *)
LEMMA UnkeyedKeys ==
  ASSUME Negotiated, EnginesFit, NEW e \in Ends, ~Keyed(e)
  PROVE  /\ Up(e, "send") => engine[e].sendKey = call[e].audio.sendKey
         /\ Up(e, "recv") => engine[e].recvKey = call[e].audio.recvKey
<1>1. EngineFits(e)
  BY DEF EnginesFit
<1> SUFFICES ASSUME Up(e, "send") \/ Up(e, "recv")
             PROVE  KeysKept(e) /\ account(e).keying # "zrtp" /\ call[e].role = NoSetup
  BY DEF KeysKept
<1>2. shown[e] # "none"
  BY <1>1 DEF EngineFits, Up
<1>3. account(e).keying \notin {"zrtp", "dtls"}
  BY DEF Keyed
<1> QED
  BY <1>1, <1>2, <1>3, RoleIsDtls DEF EngineFits

(* Two ends of a call in the clear, or with SDES, that both show it, can   *)
(* hear each other.                                                        *)
LEMMA EndsUnderstand ==
  ASSUME Negotiated, NEW e \in Ends, shown[e] # "none", shown[Peer(e)] # "none"
  PROVE  /\ call[Peer(e)].audio.sendKey = call[e].audio.recvKey
         /\ call[Peer(e)].codec = call[e].codec
         /\ SameVad /\ ComfortNoise(Peer(e)) => ComfortNoise(e)
<1>1. Settled("caller") /\ Settled("callee")
  BY ShownIsSettled, EndFacts DEF Ends
<1> DEFINE sdes == account("caller").keying = "sdes" /\ account("callee").keying = "sdes"
<1>2. \A f \in Ends : OwnKeys(call[f].audio, f, "audio", sdes) /\ call[f].codec = sdp["callee"][1].codecs[1]
  BY <1>1 DEF Settled, Side, Ends
<1>3. \A f \in Ends : call[f].codec # "opus" =>
          call[f].cn = account(Peer(f)).vad
  BY <1>1, EndFacts DEF Settled, Side, Ends
<1>4. Peer(e) \in Ends /\ Peer(Peer(e)) = e
  BY PeerFacts
<1> HIDE DEF sdes
<1>5. call[Peer(e)].audio.sendKey = call[e].audio.recvKey
  BY <1>2, <1>4 DEF OwnKeys
<1>6. SameVad => account(e).vad = account(Peer(e)).vad
  BY EndFacts DEF SameVad, Ends
<1> QED
  BY <1>2, <1>3, <1>4, <1>5, <1>6 DEF ComfortNoise

(* What an engine makes of a frame: speech of speech, and of comfort noise *)
(* quiet, if it is a first leg.                                            *)
LEMMA DecodedFacts ==
  ASSUME Negotiated, EnginesFit, NEW e \in Ends, NEW f, FrameOf(Peer(e), f), Up(e, "recv"),
         ~Keyed("caller"), ~Keyed("callee")
  PROVE  /\ f.what = "voice" => Decoded(e, f) = "voice"
         /\ f.what = "noise" /\ SameVad /\ engine[e].leg = 1 => Decoded(e, f) = "quiet"
<1>1. ~Keyed(e) /\ ~Keyed(Peer(e))
  BY EndFacts DEF Ends
<1>2. shown[e] # "none" /\ shown[Peer(e)] # "none"
  BY DEF FrameOf, EnginesFit, EngineFits, Up
<1>3. engine[e].recvKey = f.key
  BY <1>1, <1>2, UnkeyedKeys, EndsUnderstand DEF FrameOf
<1>4. f.codec = call[e].codec /\ (f.what = "noise" /\ SameVad => ComfortNoise(e))
  BY <1>2, EndsUnderstand DEF FrameOf
<1> QED
  BY <1>3, <1>4 DEF Decoded, ComfortNoiseLeg

(* What an end shows of a call, once it does, and what it has of it.       *)
LEMMA ShownStays ==
  ASSUME Negotiated, [Next]_vars, NEW e \in Ends, shown[e] # "none"
  PROVE  shown'[e] # "none" /\ call'[e] = call[e] /\ setting' = setting
<1>1. CASE UNCHANGED <<session, shown>>
  BY <1>1 DEF session
<1>2. CASE MakeOffer
  BY <1>2 DEF MakeOffer
<1>3. CASE MakeAnswer
  <2>1. /\ shown["callee"] = "none" /\ shown' = [shown EXCEPT !["callee"] = "connecting"]
        /\ \E c : call' = [call EXCEPT !["callee"] = c]
        /\ setting' = setting
    BY <1>3 DEF MakeAnswer, Negotiated
  <2> QED
    BY <2>1 DEF Negotiated
<1>4. CASE ReadAnswer
  <2>1. /\ shown["caller"] = "none" /\ shown' = [shown EXCEPT !["caller"] = "connecting"]
        /\ \E c : call' = [call EXCEPT !["caller"] = c]
        /\ setting' = setting
    BY <1>4 DEF ReadAnswer, Negotiated
  <2> QED
    BY <2>1 DEF Negotiated
<1>5. CASE \E f \in Ends : Client(f)
  <2>1. PICK f \in Ends : Client(f)
    BY <1>5
  <2>2. PICK s \in {"active", "held", "conference", "ended"} : shown' = [shown EXCEPT ![f] = s]
    BY <2>1, ClientShows
  <2>3. UNCHANGED session
    BY <2>1, ClientShows
  <2> QED
    BY <2>2, <2>3 DEF session, Negotiated
<1>6. CASE \E f \in Ends : ZrtpStep(f)
  BY <1>1, <1>6 DEF ZrtpStep
<1>7. CASE LoseZrtp
  BY <1>1, <1>7 DEF LoseZrtp
<1>8. CASE \E f \in Ends : Dtls(f)
  BY <1>1, <1>8 DEF Dtls, DtlsSecure, DtlsMismatch, DtlsFails, DtlsEnds
<1>9. CASE \E f \in Ends : TakeKey(f) \/ \E task \in {"send", "recv"} : SeeStop(f, task)
  BY <1>1, <1>9 DEF TakeKey, SeeStop
<1>10. CASE \E f \in Ends : ReceiveFrame(f) \/ \E what \in {"voice", "noise"} : SendFrame(f, what)
  BY <1>1, <1>10 DEF ReceiveFrame, SendFrame
<1>11. CASE FilmFrame \/ ShowVideo \/ LosePacket
  BY <1>1, <1>11 DEF FilmFrame, ShowVideo, LosePacket
<1>12. CASE UNCHANGED vars
  BY <1>1, <1>12 DEF vars
<1> QED
  BY <1>2, <1>3, <1>4, <1>5, <1>6, <1>7, <1>8, <1>9, <1>10, <1>11, <1>12 DEF Next

(* What the send task sends.                                               *)
LEMMA SentFits ==
  ASSUME Negotiated, EnginesFit, NEW e \in Ends, NEW what \in {"voice", "noise"},
         SendFrame(e, what)
  PROVE  /\ air'.to \in Ends /\ FrameOf(Peer(air'.to), air')
         /\ UNCHANGED <<session, shown>>
<1> DEFINE f == [to |-> Peer(e), key |-> engine[e].sendKey, what |-> what,
                 codec |-> call[e].codec]
<1>1. /\ air' = f /\ UNCHANGED <<session, shown>>
      /\ Up(e, "send") /\ (what = "noise" => ComfortNoise(e))
  BY DEF SendFrame, ComfortNoiseLeg
<1>2. /\ f.to = Peer(e) /\ f.key = engine[e].sendKey /\ f.what = what
      /\ f.codec = call[e].codec
  OBVIOUS
<1>3. Peer(e) \in Ends /\ Peer(Peer(e)) = e
  BY PeerFacts
<1>4. shown[e] # "none"
  BY <1>1 DEF EnginesFit, EngineFits, Up
<1>5. ~Keyed(e) => engine[e].sendKey = call[e].audio.sendKey
  BY <1>1, UnkeyedKeys
<1> HIDE DEF f
<1>6. FrameOf(e, f)
  BY <1>1, <1>2, <1>4, <1>5 DEF FrameOf
<1> QED
  BY <1>1, <1>2, <1>3, <1>6

(* At first nothing was sent.                                              *)
LEMMA VoiceInitially == Init => FrameFits
BY DEF Init, FrameFits

(* Every step keeps what is on its way fit.                                *)
LEMMA VoiceStep == Negotiated /\ EnginesFit /\ FrameFits /\ [Next]_vars => FrameFits'
<1> SUFFICES ASSUME Negotiated, EnginesFit, FrameFits, [Next]_vars
             PROVE  FrameFits'
  OBVIOUS
<1>1. setting' = setting
  <2>1. CASE \E e \in Ends : Client(e)
    BY <2>1, ClientShows DEF session
  <2>2. CASE MakeOffer \/ MakeAnswer \/ ReadAnswer
    BY <2>2 DEF MakeOffer, MakeAnswer, ReadAnswer
  <2>3. CASE UNCHANGED session
    BY <2>3 DEF session
  <2>4. CASE \E e \in Ends : ZrtpStep(e)
    BY <2>3, <2>4 DEF ZrtpStep
  <2>5. CASE LoseZrtp
    BY <2>3, <2>5 DEF LoseZrtp
  <2>6. CASE \E e \in Ends : Dtls(e)
    BY <2>3, <2>6 DEF Dtls, DtlsSecure, DtlsMismatch, DtlsFails, DtlsEnds
  <2>7. CASE \E e \in Ends : TakeKey(e) \/ \E task \in {"send", "recv"} : SeeStop(e, task)
    BY <2>3, <2>7 DEF TakeKey, SeeStop
  <2>8. CASE \E e \in Ends : ReceiveFrame(e) \/ \E what \in {"voice", "noise"} : SendFrame(e, what)
    BY <2>3, <2>8 DEF ReceiveFrame, SendFrame
  <2>9. CASE FilmFrame \/ ShowVideo \/ LosePacket
    BY <2>3, <2>9 DEF FilmFrame, ShowVideo, LosePacket
  <2>10. CASE UNCHANGED vars
    BY <2>3, <2>10 DEF vars
  <2> QED
    BY <2>1, <2>2, <2>4, <2>5, <2>6, <2>7, <2>8, <2>9, <2>10 DEF Next
<1>4. CASE UNCHANGED air
  <2> SUFFICES ASSUME air' # NoFrame
               PROVE  air'.to \in Ends /\ FrameOf(Peer(air.to), air)'
    BY DEF FrameFits
  <2>1. air' = air
    BY <1>4
  <2>2. air.to \in Ends /\ FrameOf(Peer(air.to), air)
    BY <2>1 DEF FrameFits
  <2>3. Peer(air.to) \in Ends
    BY <2>2, PeerFacts
  <2> DEFINE e == Peer(air.to)
             f == air
  <2>4. FrameOf(e, f) /\ e \in Ends
    BY <2>2, <2>3
  <2>5. shown[e] # "none" /\ shown'[e] # "none" /\ call'[e] = call[e]
    BY <2>4, ShownStays DEF FrameOf
  <2>6. Keyed(e)' = Keyed(e) /\ ComfortNoise(e)' = ComfortNoise(e)
    BY <1>1, <2>1, <2>5 DEF Keyed, ComfortNoise, account
  <2> QED
    BY <2>1, <2>2, <2>4, <2>5, <2>6 DEF FrameOf
<1>5. CASE \E e \in Ends : ReceiveFrame(e)
  BY <1>5 DEF ReceiveFrame, FrameFits
<1>6. CASE \E e \in Ends, what \in {"voice", "noise"} : SendFrame(e, what)
  <2>1. PICK e \in Ends, what \in {"voice", "noise"} : SendFrame(e, what)
    BY <1>6
  <2>2. /\ air'.to \in Ends /\ FrameOf(Peer(air'.to), air')
        /\ UNCHANGED <<session, shown>>
    BY <2>1, SentFits
  <2>3. FrameOf(Peer(air'.to), air')
            <=> FrameOf(Peer(air.to), air)'
    BY <2>2 DEF session, FrameOf, Keyed, ComfortNoise, account
  <2> QED
    BY <2>2, <2>3 DEF FrameFits
<1>7. CASE MakeOffer \/ MakeAnswer \/ ReadAnswer
  BY <1>4, <1>7 DEF MakeOffer, MakeAnswer, ReadAnswer
<1>8. CASE \E e \in Ends : Client(e)
  BY <1>4, <1>8 DEF Client, StartMedia, Hold, Resume, Merge, HangUp
<1>9. CASE \E e \in Ends : ZrtpStep(e)
  BY <1>4, <1>9 DEF ZrtpStep
<1>10. CASE LoseZrtp
  BY <1>4, <1>10 DEF LoseZrtp
<1>11. CASE \E e \in Ends : Dtls(e)
  BY <1>4, <1>11 DEF Dtls, DtlsSecure, DtlsMismatch, DtlsFails, DtlsEnds
<1>12. CASE \E e \in Ends : TakeKey(e) \/ \E task \in {"send", "recv"} : SeeStop(e, task)
  BY <1>4, <1>12 DEF TakeKey, SeeStop
<1>13. CASE FilmFrame \/ ShowVideo \/ LosePacket
  BY <1>4, <1>13 DEF FilmFrame, ShowVideo, LosePacket
<1>14. CASE UNCHANGED vars
  BY <1>4, <1>14 DEF vars
<1> QED
  BY <1>5, <1>6, <1>7, <1>8, <1>9, <1>10, <1>11, <1>12, <1>13, <1>14 DEF Next

(* All of it together.                                                     *)
LEMMA MediaAlways ==
  Spec => [](/\ Negotiated /\ ZInv /\ HandshakeBounds /\ EnginesFit
             /\ StreamFits /\ CameraKnown /\ FrameFits)
BY EnginesAlways, StreamInitially, StreamStep, VoiceInitially, VoiceStep, PTL DEF Spec

(* Between two ends whose calls are in the clear or under keys of SDES,    *)
(* whatever is on its way is heard as what it is by the engine it comes    *)
(* to, whatever codec they settled on and whatever each of them did with   *)
(* the call on its own; comfort noise only if both detect silence, and     *)
(* never by the second leg of a conference.                                *)
THEOREM NothingIsGarbled == Spec => []Intelligible
<1>1. Negotiated /\ EnginesFit /\ FrameFits => Intelligible
  <2> SUFFICES ASSUME Negotiated, EnginesFit, FrameFits, ~Keyed("caller"), ~Keyed("callee"),
                      NEW e \in Ends, air.to = e, Up(e, "recv")
               PROVE  /\ air.what = "voice" => Decoded(e, air) = "voice"
                      /\ air.what = "noise" /\ SameVad /\ engine[e].leg = 1
                         => Decoded(e, air) = "quiet"
    BY DEF Intelligible
  <2>1. FrameOf(Peer(e), air)
    BY DEF FrameFits, NoFrame, Ends
  <2> QED
    BY <2>1, DecodedFacts
<1> QED
  BY <1>1, MediaAlways, PTL

(* The state of a session, its handshake and its video is what MediaSession*)
(* says it is; a handshake runs only in the receive task of an engine, and *)
(* tasks only in a call that is shown as active.                           *)
THEOREM MediaTypes == Spec => []TypeOK
<1>1. /\ Negotiated /\ ZInv /\ EnginesFit /\ StreamFits
      => TypeOK
  <2> SUFFICES ASSUME Negotiated, ZInv, EnginesFit, StreamFits
               PROVE  TypeOK
    OBVIOUS
  <2>1. ASSUME NEW e \in Ends
        PROVE  /\ engine[e].id \in 0..MaxStarts
               /\ engine[e].tasks \subseteq {"send", "recv"}
               /\ {engine[e].sendKey, engine[e].recvKey, engine[e].queued} \subseteq Keys
               /\ engine[e].dtls \in {"none", "shaking"}
               /\ (Running(e) => Up(e, "recv") /\ account(e).keying = "zrtp")
               /\ (engine[e].tasks # {} => shown[e] \in {"active", "conference"})
    BY EngineRecords DEF EnginesFit, EngineFits
  <2>2. ZTypeOK /\ VTypeOK
    BY DEF ZInv, StreamFits
  <2>3. video \subseteq {e \in Ends : engine[e].id > 0} /\ lingers \subseteq Ends
    BY DEF EnginesFit
  <2> QED
    BY <2>1, <2>2, <2>3 DEF TypeOK, Negotiated
<1> QED
  BY <1>1, MediaAlways, PTL

=============================================================================
