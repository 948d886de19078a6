------------------------------ MODULE MCMedia ------------------------------
(* Scenarios for TLC: the two accounts differ in one respect at a time.    *)
EXTENDS MediaSession

Plain ==
    [codecs |-> <<"opus", "pcmu">>, forced |-> "none", keying |-> "none",
     vad |-> FALSE, video |-> FALSE, ice |-> FALSE, turn |-> FALSE]

Between(a, b) == [accounts |-> [caller |-> a, callee |-> b], forged |-> {}, film |-> <<>>]

Keyings == {"none", "sdes", "zrtp", "dtls"}

(* Every pair of keyings; a forged fingerprint. *)
KeyedScenarios ==
    {Between([Plain EXCEPT !.keying = k], [Plain EXCEPT !.keying = l]) :
        k \in Keyings, l \in Keyings}
    \cup
    {[Between([Plain EXCEPT !.keying = "dtls"], [Plain EXCEPT !.keying = "dtls"])
        EXCEPT !.forged = f] : f \in {{"callee"}, {"caller", "callee"}}}

(* Codec lists in either order, with none in common or with all of them; a *)
(* forced codec; comfort noise at either end.                              *)
CodecLists == {<<"opus", "pcmu">>, <<"pcmu", "opus">>, <<"gsm", "pcmu">>, <<>>}
CodecScenarios ==
    {Between([Plain EXCEPT !.codecs = c], [Plain EXCEPT !.codecs = d, !.forced = f]) :
        c \in CodecLists, d \in CodecLists, f \in {"none", "pcmu"}}
    \cup
    {Between([Plain EXCEPT !.codecs = c, !.vad = v], [Plain EXCEPT !.codecs = c, !.vad = w]) :
        c \in {<<"pcmu">>, <<"opus", "pcmu">>}, v \in BOOLEAN, w \in BOOLEAN}
    \cup
    {Between([Plain EXCEPT !.codecs = <<"gsm">>], Plain)}

(* Video, and a TURN server that may give a relay for one leg only.        *)
MCVideoTurn ==
    {Between([Plain EXCEPT !.video = TRUE, !.turn = TRUE], [Plain EXCEPT !.video = TRUE])}

(* Two frames, one that may lose its middle, one where the numbers wrap.   *)
WithVideo == [Plain EXCEPT !.video = TRUE]
FilmScenarios == {[Between(WithVideo, WithVideo) EXCEPT !.film = <<3, 2>>]}

(* Video, ICE and TURN, at one end or at both.                             *)
NetworkScenarios ==
    {Between([Plain EXCEPT !.video = v, !.keying = k], [Plain EXCEPT !.video = w, !.keying = k]) :
        v \in BOOLEAN, w \in BOOLEAN, k \in {"none", "sdes"}}
    \cup
    {Between([Plain EXCEPT !.ice = i, !.turn = t], [Plain EXCEPT !.ice = j, !.turn = t]) :
        i \in BOOLEAN, j \in BOOLEAN, t \in BOOLEAN}
    \cup
    {Between([Plain EXCEPT !.video = TRUE, !.ice = TRUE], [Plain EXCEPT !.video = TRUE, !.ice = TRUE])}
    \cup MCVideoTurn

MCScenarios ==
    KeyedScenarios \cup CodecScenarios \cup NetworkScenarios \cup FilmScenarios

=============================================================================
