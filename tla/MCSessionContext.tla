--------------------------- MODULE MCSessionContext ---------------------------
(***************************************************************************)
(* Instances of SessionContext for TLC: a conversation with five saved      *)
(* messages, one of which its summary quotes and one of which repeats       *)
(* another, resumed for a few turns.                                        *)
(***************************************************************************)
EXTENDS SessionContext

MCHistory ==
  << [role |-> "user", text |-> <<"old", 1>>],
     [role |-> "assistant", text |-> <<"old", 2>>],
     [role |-> "user", text |-> <<"old", 3>>],
     [role |-> "assistant", text |-> <<"old", 2>>],
     [role |-> "user", text |-> <<"old", 4>>] >>

MCSummarised == {<<"old", 3>>}
=============================================================================
