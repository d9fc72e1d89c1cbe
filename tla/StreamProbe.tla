---------------------------- MODULE StreamProbe ----------------------------
(***************************************************************************)
(* What check_stream makes of the answers of ffprobe and ffmpeg.           *)
(*                                                                         *)
(* An answer is abstracted to what the verdict depends on: how ffprobe     *)
(* ended; the markers its error text contains (the text of an error quotes *)
(* the url, so any marker that is a number may stand in any text); whether *)
(* there is video, audio and a fixed duration; and what the one ffmpeg     *)
(* pass gave positive evidence of, nothing if it failed.                   *)
(***************************************************************************)
EXTENDS Naturals, Sequences

CONSTANT Detectors       \* the detectors that are switched on

Detector == {"placeholder", "black", "frozen", "silent"}

ASSUME DetectorAssumption == Detectors \subseteq Detector

\* The order in which the text of an error is looked at, and the type it gets.
Marker == <<"timeout", "option", "404", "403", "429", "500", "refused",
            "unreachable", "invalid", "protocol">>

ErrorType == <<"Timeout", "FFprobe Option Error", "404 Not Found", "403 Forbidden",
               "Rate Limited", "Server Error", "Connection Refused",
               "Network Unreachable", "Invalid Stream", "Unsupported Protocol">>

\* The order in which evidence counts: a black picture is also a still one.
Precedence == <<"placeholder", "black", "frozen", "silent">>

Fault == [placeholder |-> "Placeholder File", black |-> "Black Screen",
          frozen |-> "Frozen Video", silent |-> "Silent Audio"]

Members(order) == {order[i] : i \in DOMAIN order}

First(order, set) ==
    CHOOSE i \in DOMAIN order :
        /\ order[i] \in set
        /\ \A j \in DOMAIN order : order[j] \in set => i <= j

Answer ==
    [exit : {"streamlink", "expired", "raised"}]
      \union [exit : {"failed"}, text : SUBSET Members(Marker), one : BOOLEAN]
      \union [exit : {"audio"}]
      \union [exit : {"video"}, audio : BOOLEAN, evidence : SUBSET Members(Precedence)]

\* A row: the status, the error type and what becomes of the stored stats.
Alive == [status |-> "Alive", error |-> "N/A", stats |-> "fresh"]
Dead(error) == [status |-> "Dead", error |-> error, stats |-> "cleared"]
Skipped(error) == [status |-> "Skipped", error |-> error, stats |-> "old"]

\* The type of an error: that of the first marker its text contains.
Classify(answer) ==
    IF answer.text \intersect Members(Marker) # {}
      THEN ErrorType[First(Marker, answer.text)]
      ELSE IF answer.one THEN "Stream Unreachable" ELSE "Other"

\* What is looked for and seen.  A duration is looked at in any case, the content
\* only while the scan goes on; a stream without audio cannot be silent.
Evidence(answer, stopped) ==
    {fault \in answer.evidence \intersect Detectors :
        /\ stopped => fault = "placeholder"
        /\ fault = "silent" => answer.audio}

\* No evidence, no fault: whatever ffmpeg could not measure leaves the stream alive.
Content(evidence) ==
    IF evidence = {} THEN Alive ELSE Dead(Fault[Precedence[First(Precedence, evidence)]])

\* check_stream: the row of one probe.  A refusal for too many requests and a
\* stream without video are no failures.
Verdict(answer, stopped) ==
    CASE answer.exit = "streamlink" -> Skipped("Skipped")
      [] answer.exit = "expired" -> Dead("Timeout")
      [] answer.exit = "raised" -> Dead("Other")
      [] answer.exit = "audio" -> Skipped("No Video Stream")
      [] answer.exit = "video" -> Content(Evidence(answer, stopped))
      [] answer.exit = "failed" ->
           IF Classify(answer) = "Rate Limited"
             THEN Skipped("Rate Limited") ELSE Dead(Classify(answer))

DeadErrors == ((Members(ErrorType) \ {"Rate Limited"})
                 \union {"Stream Unreachable", "Other"})
                 \union {Fault[fault] : fault \in Detector}

\* All that a probe can find.
Rows == ({Alive} \union {Dead(error) : error \in DeadErrors})
          \union {Skipped(error) : error \in {"Skipped", "No Video Stream", "Rate Limited"}}

Retryable == {"Timeout", "Connection Refused", "Network Unreachable",
              "Stream Unreachable", "Server Error"}

\* What a worker that has not begun a probe returns once the scan is stopped.
Cancelled == Dead("Cancelled")
=============================================================================
