------------------------------ MODULE Encoder ------------------------------
(***************************************************************************)
(* The recorder (recording/recorder.go): it is handed frames of several    *)
(* sources, mixes one chunk of each at every tick and writes the sum to    *)
(* ffmpeg. Whoever hands it a frame must not wait; whoever stops it learns *)
(* whether the recording is good.                                          *)
(*                                                                         *)
(* Only how much waits is kept of the audio, in chunks. ffmpeg is external: *)
(* it may stop reading, fail at any time, and be killed.                   *)
(***************************************************************************)
EXTENDS Naturals, Sequences, FiniteSetsExt

CONSTANTS
  Sources,    \* who is recorded
  InputSize,  \* 512 in the code
  MaxQueued,  \* chunks kept of a source: 5 s in the code
  FrameSize   \* bound: chunks in a frame

ASSUME EncoderAssumption ==
  InputSize \in Nat \ {0} /\ MaxQueued \in Nat \ {0} /\ FrameSize \in Nat \ {0}

VARIABLES
  run,     \* the goroutine: "mixing", "writing", "closing" its encoder, "done"
  input,   \* Recorder.input: the sources of the frames in it
  queues,  \* how many chunks wait of each source
  ffmpeg,  \* "reads", "stalls", "ended" well, "died"
  failed,  \* Recorder.err is set
  stopper, \* who calls Stop: "no", "waits", "killed" ffmpeg and waits, "returned"
  result   \* what Stop said: "none", "nil", "error"

recorder == <<run, input, queues, ffmpeg, failed, stopper, result>>

RecorderInit ==
  /\ run = "mixing" /\ input = <<>> /\ queues = [s \in Sources |-> 0]
  /\ ffmpeg = "reads" /\ failed = FALSE
  /\ stopper = "no" /\ result = "none"

\* Nothing is recorded: New was not called, or failed and removed what it had reserved.
Absent ==
  /\ run = "done" /\ input = <<>> /\ queues = [s \in Sources |-> 0]
  /\ ffmpeg = "ended" /\ failed = FALSE
  /\ stopper = "returned" /\ result = "nil"

\* Mutant: a frame waits for room.
RecordAudioFrame_Waits(s) == Len(input) < InputSize /\ input' = Append(input, s)

\* What does not fit is dropped.
RecordAudioFrame(s) == input' = IF Len(input) < InputSize THEN Append(input, s) ELSE input

-----------------------------------------------------------------------------
(* run                                                                     *)

\* appendCapped
Take ==
  /\ run = "mixing" /\ input # <<>>
  /\ input' = Tail(input)
  /\ queues' = [queues EXCEPT ![Head(input)] = Min({@ + FrameSize, MaxQueued})]
  /\ UNCHANGED <<run, ffmpeg, failed, stopper, result>>

Tick ==
  /\ run = "mixing"
  /\ queues' = [s \in Sources |-> IF queues[s] = 0 THEN 0 ELSE queues[s] - 1]
  /\ run' = "writing"
  /\ UNCHANGED <<input, ffmpeg, failed, stopper, result>>

\* writePCM waits as long as ffmpeg does not read.
Written ==
  /\ run = "writing" /\ ffmpeg = "reads"
  /\ run' = "mixing"
  /\ UNCHANGED <<input, queues, ffmpeg, failed, stopper, result>>

WriteFails ==
  /\ run = "writing" /\ ffmpeg = "died"
  /\ failed' = TRUE /\ run' = "closing"
  /\ UNCHANGED <<input, queues, ffmpeg, stopper, result>>

StopSeen ==
  /\ run = "mixing" /\ stopper # "no"
  /\ run' = "closing"
  /\ UNCHANGED <<input, queues, ffmpeg, failed, stopper, result>>

\* Mutant: how ffmpeg ended is not asked.
Closed_Unasked ==
  /\ run = "closing" /\ ffmpeg \in {"ended", "died"}
  /\ run' = "done"
  /\ UNCHANGED <<input, queues, ffmpeg, failed, stopper, result>>

\* closeEncoder: standard input is closed, and the end of ffmpeg awaited.
Closed ==
  /\ run = "closing" /\ ffmpeg \in {"ended", "died"}
  /\ failed' = (failed \/ ffmpeg = "died")
  /\ run' = "done"
  /\ UNCHANGED <<input, queues, ffmpeg, stopper, result>>

RunStep == Take \/ Tick \/ Written \/ WriteFails \/ StopSeen \/ Closed

-----------------------------------------------------------------------------
(* ffmpeg, and Stop                                                        *)

Stalls ==
  /\ ffmpeg = "reads" /\ ffmpeg' = "stalls"
  /\ UNCHANGED <<run, input, queues, failed, stopper, result>>

Resumes ==
  /\ ffmpeg = "stalls" /\ ffmpeg' = "reads"
  /\ UNCHANGED <<run, input, queues, failed, stopper, result>>

Dies ==
  /\ ffmpeg \in {"reads", "stalls"} /\ ffmpeg' = "died"
  /\ UNCHANGED <<run, input, queues, failed, stopper, result>>

Ends ==
  /\ run = "closing" /\ ffmpeg = "reads" /\ ffmpeg' = "ended"
  /\ UNCHANGED <<run, input, queues, failed, stopper, result>>

Stop ==
  /\ stopper = "no" /\ stopper' = "waits"
  /\ UNCHANGED <<run, input, queues, ffmpeg, failed, result>>

\* After two seconds.
Kill ==
  /\ stopper = "waits" /\ run # "done"
  /\ stopper' = "killed"
  /\ ffmpeg' = IF ffmpeg = "ended" THEN "ended" ELSE "died"
  /\ UNCHANGED <<run, input, queues, failed, result>>

StopReturn ==
  /\ stopper \in {"waits", "killed"} /\ run = "done"
  /\ stopper' = "returned"
  /\ result' = IF failed THEN "error" ELSE "nil"
  /\ UNCHANGED <<run, input, queues, ffmpeg, failed>>

FfmpegStep == Stalls \/ Resumes \/ Dies \/ Ends
StopStep == Kill \/ StopReturn

-----------------------------------------------------------------------------
(* Properties                                                              *)

\* "run owns stdin and closes it only after it has stopped writing" (recorder.go:180):
\* Stop reports an error exactly when the encoder did not end well, whether it
\* failed while it was read from, while it was closed, or was killed.
StopTellsTheTruth == result # "none" => (result = "nil") = (ffmpeg = "ended")

\* Stop returns, whatever ffmpeg does.
StopReturns == stopper = "waits" ~> stopper = "returned"

=============================================================================
