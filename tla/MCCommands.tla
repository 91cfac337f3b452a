----------------------------- MODULE MCCommands -----------------------------
(***************************************************************************)
(* Commands with words of one and two characters in a buffer of two, one   *)
(* well-formed message and one with the wrong payload.                     *)
(***************************************************************************)
EXTENDS Commands

MCVocabulary ==
  [line \in {<<"r">>, <<"a", "a">>, <<"a">>} |->
     IF line = <<"r">> THEN "RESET" ELSE IF line = <<"a">> THEN "STATUS" ELSE "ACK"]

Message(topic, payload) == [topic |-> topic, payload |-> payload]
MCMessages == {Message("reset", "reset"), Message("ack", "reset")}
=============================================================================
