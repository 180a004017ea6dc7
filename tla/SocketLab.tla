----------------------------- MODULE SocketLab -----------------------------
(***************************************************************************)
(* HTTP_Request_flow.c, main: the stages of the lab one after the other,   *)
(* each as the order in which it prints, tries what ends the program if it *)
(* fails, runs commands and pauses for ENTER.  What the stages do on the   *)
(* network is in HttpExchange.                                             *)
(***************************************************************************)
EXTENDS Transcript

VARIABLES
  at,           \* the next step of main
  interactive   \* isatty(STDIN_FILENO)

labVars == <<transcriptVars, at, interactive>>

greeting         == <<"print", "enter">>
create_socket    == <<"print", "try", "print">>
inspect_socket   == <<"print", "command", "print", "enter">>
resolve_dns      == <<"print", "try", "print", "enter">>
show_traceroute  == <<"print", "enter">>
connect_socket   == <<"print", "try", "print", "command", "print", "enter">>
build_http_request == <<"print", "enter">>
send_request     == <<"print", "send", "print", "command", "print", "enter">>
receive_response == <<"print", "try", "print", "command", "print", "enter">>
close_socket     == <<"print", "command", "print", "enter">>
lab_complete     == <<"print">>

Main ==
  greeting \o create_socket \o inspect_socket \o resolve_dns \o show_traceroute
  \o connect_socket \o build_http_request \o send_request \o receive_response
  \o close_socket \o lab_complete

Upcoming(step) == at <= Len(Main) /\ Main[at] = step

LabInit ==
  /\ TranscriptInit
  /\ at = 1
  /\ interactive \in BOOLEAN

PrintStep ==
  /\ Upcoming("print")
  /\ printf(at)
  /\ at' = at + 1
  /\ UNCHANGED <<lab, interactive>>

run_command ==
  /\ Upcoming("command")
  /\ CommandPrints(at)
  /\ at' = at + 1
  /\ UNCHANGED <<lab, interactive>>

Trying == Upcoming("try") \/ Upcoming("send")

TrySucceeds ==
  /\ Trying /\ lab = "run"
  /\ at' = at + 1
  /\ UNCHANGED <<transcriptVars, interactive>>

TryFails ==
  /\ Trying
  /\ Fail(at)
  /\ UNCHANGED <<at, interactive>>

(* send() after the server has closed and reset the connection: SIGPIPE.   *)
SendKills ==
  /\ Upcoming("send") /\ lab = "run"
  /\ LabGone("disconnected")
  /\ UNCHANGED <<save, stdout_to, said, pipe, read_ends, teeVars, terminal, tmp, file,
                 at, interactive>>

(* wait_enter prints a prompt and flushes it, if somebody can answer it.   *)
wait_enter ==
  /\ Upcoming("enter")
  /\ \/ ~ interactive /\ lab = "run" /\ at' = at + 1 /\ UNCHANGED transcriptVars
     \/ interactive /\ printf(at) /\ lab' = "prompt" /\ UNCHANGED at
  /\ UNCHANGED interactive

(* A line or the end of the input arrives. *)
PressEnter ==
  /\ lab = "prompt" /\ buffered = <<>>
  /\ lab' = "run"
  /\ at' = at + 1
  /\ UNCHANGED <<save, stdioVars, pipeVars, teeVars, terminal, tmp, file, interactive>>

(* main returns: stop_output_tee, or the flush of exit alone. *)
Return ==
  /\ lab = "run" /\ at > Len(Main)
  /\ lab' = IF save THEN "stop" ELSE "exit"
  /\ UNCHANGED <<save, stdioVars, pipeVars, teeVars, terminal, tmp, file, at, interactive>>

Complaint == 0

Ending == (Flush \/ SigPipe \/ Exit \/ stop_output_tee) /\ UNCHANGED <<at, interactive>>

LabStep ==
  \/ (start_output_tee \/ start_output_tee_fails(Complaint)) /\ UNCHANGED <<at, interactive>>
  \/ PrintStep \/ run_command \/ TrySucceeds \/ TryFails \/ SendKills \/ wait_enter \/ Return
  \/ Ending

TeeStep == Tee /\ UNCHANGED <<at, interactive>>

CtrlC ==
  \/ Interrupt /\ UNCHANGED <<at, interactive>>
  \/ Upcoming("command") /\ InterruptCommand /\ at' = at + 1 /\ UNCHANGED interactive

LabNext == LabStep \/ TeeStep \/ PressEnter \/ CtrlC

LabSpec == LabInit /\ [][LabNext]_labVars

(* Both processes are scheduled, so the child copies and the lab ends once *)
(* it has begun to.  Nobody need press ENTER, and a command may never end. *)
FairLabSpec == LabSpec /\ WF_labVars(Ending) /\ WF_labVars(TeeStep)

-----------------------------------------------------------------------------
Undisturbed == tee \notin {"failed", "interrupted"}
               /\ lab \notin {"disconnected", "interrupted"}

(* Nothing that was printed is lost or copied twice on its way through     *)
(* stdio, the pipe and the child, and what the terminal shows is in the    *)
(* transcript too, unless the disk refused it.  So nothing but a child     *)
(* that could not open its file, a server that breaks the connection, or   *)
(* Ctrl-C gets the lab killed and its buffer lost.                         *)
OutputIsConserved ==
  Undisturbed =>
    LET unshown == IF tee = "show" THEN chunk ELSE {}
        places == <<Range(buffered), Range(pipe), unshown, terminal>>
        inLog == terminal \ (IF tee = "log" THEN chunk ELSE {})
    IN  /\ said = UNION Range(places)
        /\ \A j, k \in 1 .. Len(places) : j # k => places[j] \cap places[k] = {}
        /\ tee # "none" => inLog \ {Complaint} = log \cup unlogged
        /\ log \cap unlogged = {}

(* README.md: the final file is written after the run.  FILE is replaced   *)
(* only when every stage has succeeded, and then by all of the output; and *)
(* when both processes have ended by themselves all of it is somewhere, in *)
(* FILE or, after a stage that failed, under the temporary name.           *)
TranscriptIsWhole ==
  /\ file = "log" => /\ at > Len(Main) /\ tee = "ended" /\ lab = "ended"
                     /\ said = terminal /\ said = log \cup unlogged
  /\ lab \in {"ended", "exited"} /\ tee = "ended" =>
       /\ "log" \in {file, tmp}
       /\ said \ {Complaint} = log \cup unlogged

(* Once it ends, the lab is not stuck: it does not wait for a child that   *)
(* waits for the end of its output, nor for room in a pipe that nobody     *)
(* empties.                                                                *)
EndingEnds ==
  lab \in {"exit", "stop", "wait", "rename"}
    ~> lab \in Gone

(* README.md: terminal output is live.  When the lab waits at a prompt,    *)
(* and when it has exited while the child still copies, all that it said   *)
(* reaches the terminal.                                                   *)
SaidIsShown ==
  lab \in {"prompt", "exited"}
    ~> terminal = said \/ lab \notin {"prompt", "exited"} \/ ~ Undisturbed
=============================================================================
