---------------------------- MODULE MCJingleMedia ----------------------------
EXTENDS JingleMedia, TLC

Call(transport, kinds, dialect, added, creator, old) ==
  [transport |-> transport, kinds |-> kinds, dialect |-> dialect, added |-> added,
   creator |-> creator, old |-> old,
   extras |-> [p \in Peers |-> {}], caps |-> [p \in Peers |-> {}],
   flaws |-> {None}]

\* Both clients have header extensions, and one has feedback that only the other could announce.
WithExtras(c, announced) ==
  [c EXCEPT !.extras = [p \in Peers |-> IF p = "initiator" THEN {"hdrext", "fb"} ELSE {"hdrext"}],
            !.caps = [p \in Peers |-> IF p = announced THEN {"hdrext"} ELSE {}],
            !.flaws = {None, "payload-type", "rtp-hdrext", "rtcp-fb", "rtcp-fb in a payload-type"}]

\* The first content of a call over each transport, in the dialects that have it, and contents
\* that one or the other side adds to a call.
MCSetups ==
  {WithExtras(Call("iceudp", {"rtp", "restarted"}, "v032", FALSE, "initiator", None),
              "responder"),
   Call("iceudp", {"rtp", "tcp"}, "v032", TRUE, "responder", None),
   Call("rawudp", {"rtp", "share"}, "v032", FALSE, "initiator", None),
   Call("rawudp", {"rtp"}, "v032", TRUE, "initiator", None),
   Call("rawudp", {"rtp"}, "v015", FALSE, "initiator", None),
   Call("google", {"rtp", "rtcp"}, "v032", FALSE, "initiator", None)}
  \cup {Call("google", {"rtp", "share"}, "gtalk4", FALSE, "initiator", old) :
          old \in {None, "initiator", "responder"}}

\* Nothing is said of a codec but which one it is.
MCSymmetry == Permutations(Codecs)
=============================================================================
