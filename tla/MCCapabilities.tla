---------------------------- MODULE MCCapabilities ----------------------------
(* Constant values for the runs of Capabilities. *)
EXTENDS Capabilities

Decoder(coded, capture) ==
  [video |-> TRUE, known |-> TRUE, opens |-> TRUE, answers |-> TRUE, formats |-> TRUE,
   capabilities |-> {"M2M", "M2M_MPLANE", "CAPTURE", "DEVICE_CAPS"}, device_caps |-> {"M2M_MPLANE"},
   coded |-> coded, capture |-> capture]
H264Node == Decoder({"H264"}, {"NV12"})
Media(nodes) == [opens |-> TRUE, answers |-> TRUE, decoder |-> TRUE, nodes |-> nodes]
System(media, override) == [media |-> media, override |-> override]

\* Machines on which everything works: what their decoders have.
Coded == SUBSET ToSet(Codecs)
Single == {System(<<Media(<<Decoder(c, f)>>)>>, << >>) : c \in Coded, f \in SUBSET CaptureFormats}
Pair == {System(<<Media(<<Decoder(c, {f})>>), Media(<<Decoder(d, {g})>>)>>, << >>) :
           c, d \in Coded, f, g \in {"NV12", "tiled"}}

\* Machines on which something does not: one node that differs in one respect,
\* next to others, in any place.
Odd == {[H264Node EXCEPT !.video = FALSE], [H264Node EXCEPT !.known = FALSE],
        [H264Node EXCEPT !.opens = FALSE], [H264Node EXCEPT !.answers = FALSE],
        [H264Node EXCEPT !.formats = FALSE], [H264Node EXCEPT !.video = FALSE, !.answers = FALSE],
        [H264Node EXCEPT !.device_caps = {"CAPTURE"}],
        [H264Node EXCEPT !.capabilities = {"M2M"}, !.device_caps = {}]}
OddMedia == {Media(<<n, H264Node>>) : n \in Odd} \cup {Media(<<H264Node, n>>) : n \in Odd}
            \cup {[Media(<<H264Node>>) EXCEPT !.opens = FALSE], [Media(<<H264Node>>) EXCEPT !.answers = FALSE],
                  [Media(<<H264Node>>) EXCEPT !.decoder = FALSE]}
VP8Media == Media(<<Decoder({"VP8"}, {"NV12"}), Decoder({"MPEG2"}, {"NV12"})>>)
Overrides == {<< >>, <<1, 1, TRUE>>, <<1, 1, FALSE>>}
Troubled == {System(<<m, VP8Media>>, o) : m \in OddMedia, o \in Overrides}
            \cup {System(<<VP8Media, m>>, o) : m \in OddMedia, o \in Overrides}
MCSystems == Single \cup Pair \cup Troubled

\* The two decoders of an RK3399, on which the driver was tested.
RK3399 == {System(<<Media(<<Decoder({"MPEG2", "VP8"}, {"NV12"})>>),
                    Media(<<Decoder({"H264", "VP9"}, {"NV12"})>>)>>, << >>)}
MCConfigIds == {0}

\* No list, and one longer than fits, of a format the driver has not.
MCRequests == {<< >>, [i \in 1 .. 3 |-> [type |-> "RTFormat", value |-> "YUV422"]]}
=============================================================================
