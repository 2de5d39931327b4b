--------------------------- MODULE MCFrameStream ----------------------------
(***************************************************************************)
(* The frames the runs of FrameStream send: every kind of Link control,     *)
(* made and encoded by the library, legal and not; every optional field;    *)
(* both majors; the smallest frame.                                         *)
(***************************************************************************)
EXTENDS FrameStream

Plain(class, payload) ==
    [link_major |-> 1, frame_class |-> class, flags |-> 0,
     source_ref |-> <<0, 7>>, destination_ref |-> NoRef,
     session_ref |-> NoRef, sequence |-> 0, freshness_ms |-> 0,
     payload |-> payload]

Challenge == MakeHandoffWith(Op.PATH_CHALLENGE, <<0, 1>>, <<0, 2>>,
                             <<9, 9, 9, 9, 9, 9, 9, 9>>)

MCTraffic ==
    {Plain(Class.KEEPALIVE, <<>>),
     Plain(Class.ACK, AckEncode(MakeAck(258))),
     [Plain(Class.NACK, AckEncode(MakeNack(1, 2))) EXCEPT !.flags = 16],
     Plain(Class.HANDOFF, HandoffEncode(Challenge)),
     [Plain(Class.HANDOFF,
            HandoffEncode(MakeHandoff(Op.COMMIT, <<0, 1>>, <<0, 2>>)))
         EXCEPT !.link_major = 0, !.flags = 2, !.session_ref = <<0, 2>>],
     [Plain(Class.CLOSE, CloseEncode(MakeClose(1)))
         EXCEPT !.flags = 15, !.destination_ref = <<1, 0>>,
                !.session_ref = <<0, 2>>, !.sequence = 258,
                !.freshness_ms = 500],
     Plain(Class.ADAPT, <<>>)}

=============================================================================
