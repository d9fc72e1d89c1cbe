---------------------------- MODULE MCStreamScan ----------------------------
(* Instances of StreamScan for TLC. *)
EXTENDS StreamScan

Fails(text) == [exit |-> "failed", text |-> text, one |-> TRUE]
Shows(evidence) == [exit |-> "video", audio |-> TRUE, evidence |-> evidence]

SomeAnswers == {Fails({"429"}), Fails({"500"}), Shows({}), Shows({"black", "frozen"})}
=============================================================================
