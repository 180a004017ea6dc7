----------------------------- MODULE MC_Handoff -----------------------------
(***************************************************************************)
(* Two threads and two requests, after a run that may have left a third    *)
(* one in the file.  One text is written in two pieces, and the other has  *)
(* a delta that wrapped below zero, which Java cannot parse.               *)
(***************************************************************************)
EXTENDS Handoff

CONSTANTS t1, t2, old, short, large

MCThreads == {t1, t2}
MCRequests == {old, short, large}
MCEarlier == {old}
MCLong == {large}
MCNone == {}

MCSteps ==
  [r \in MCRequests |->
    IF r = large THEN <<"EVENT_TCP_V4_RCV", "EVENT_SENDTO_ENTER", "EVENT_SCHED_SWITCH",
                        "EVENT_TCP_SENDMSG">>
    ELSE <<"EVENT_TCP_V4_RCV", "EVENT_TCP_SENDMSG">>]

MCSpans == [r \in MCRequests |-> <<[stage |-> "POSTGRESQL", k |-> 1], [stage |-> "TOMCAT", k |-> 2]>>]

(* The transmission was stamped before the segment that it answers. *)
MCWrapped == {<<old, 2>>}
=============================================================================
