----------------------------- MODULE Transcript -----------------------------
(***************************************************************************)
(* HTTP_Request_flow.c, --save-output FILE: start_output_tee puts a pipe   *)
(* in the place of stdout and stderr, and a child process copies what      *)
(* comes out of it to the terminal and to a file of a temporary name;      *)
(* stop_output_tee takes the pipe away, waits for the child and renames.   *)
(*                                                                         *)
(* An item is one piece of output.  What the lab prints goes through the   *)
(* buffer of stdio; what a command prints that it runs, and perror, do     *)
(* not.                                                                    *)
(***************************************************************************)
EXTENDS Naturals, Sequences, Functions

CONSTANTS
  PIPE_SIZE,     \* items that fit the pipe
  STDIO_SIZE     \* items that fit the buffer of stdout

ASSUME SizeAssumption == PIPE_SIZE \in Nat \ {0} /\ STDIO_SIZE \in Nat \ {0}

VARIABLES
  lab,          \* the process: "start", "run", ...
  save,         \* save_output_enabled
  stdout_to,    \* where its descriptors 1 and 2 lead: "terminal" or "pipe"
  buffered,     \* the buffer of stdout
  said,         \* history: every item printed so far
  pipe, write_ends, read_ends,     \* the pipe and who holds its two ends
  tee,          \* the child: "none", "open", "read", "show", "log", ...
  chunk,        \* what it is copying
  terminal,     \* the items on the terminal
  log,          \* the items in the file that the child writes
  unlogged,     \* history: items whose write() to that file failed
  tmp, file     \* what output_tmp_path and FILE name: "none", "log" or "old"

stdioVars == <<stdout_to, buffered, said>>
pipeVars == <<pipe, write_ends, read_ends>>
teeVars == <<tee, chunk, log, unlogged>>
transcriptVars == <<lab, save, stdioVars, pipeVars, teeVars, terminal, tmp, file>>

TranscriptInit ==
  /\ lab = "start"
  /\ save \in BOOLEAN
  /\ stdout_to = "terminal"
  /\ buffered = <<>> /\ said = {}
  /\ pipe = <<>> /\ write_ends = {} /\ read_ends = {}
  /\ tee = "none" /\ chunk = {} /\ log = {} /\ unlogged = {}
  /\ terminal = {}
  /\ tmp = "none" /\ file = "old"

Gone == {"ended", "exited", "killed", "disconnected", "interrupted"}
Copying == tee \in {"open", "read", "show", "log"}

-----------------------------------------------------------------------------
(* write(1 or 2, item): to the terminal, or to the pipe when it has room.  *)
Write(item) ==
  \/ /\ stdout_to = "terminal"
     /\ terminal' = terminal \cup {item}
     /\ UNCHANGED pipe
  \/ /\ stdout_to = "pipe" /\ read_ends # {}
     /\ Len(pipe) < PIPE_SIZE
     /\ pipe' = Append(pipe, item)
     /\ UNCHANGED terminal

BrokenPipe == stdout_to = "pipe" /\ read_ends = {}

(* A process that ends gives up its end of the pipe, and, killed, what it  *)
(* had buffered.                                                           *)
LabGone(how) ==
  /\ lab' = how
  /\ buffered' = <<>>
  /\ write_ends' = write_ends \ {"lab"}

(* Mutant: the child inherits the write end and keeps it.                  *)
start_keeping_write_end ==
  /\ lab = "start"
  /\ IF save THEN /\ stdout_to' = "pipe" /\ tee' = "open"
                  /\ write_ends' = {"lab", "tee"} /\ read_ends' = {"tee"}
     ELSE UNCHANGED <<stdout_to, tee, write_ends, read_ends>>
  /\ lab' = "run"
  /\ UNCHANGED <<save, buffered, said, pipe, chunk, log, unlogged, terminal, tmp, file>>

(* pipe, dup, fork, dup2; the child closes the write end and the parent    *)
(* the read end.  Nothing is done without --save-output.                   *)
start_output_tee ==
  /\ lab = "start"
  /\ IF save THEN /\ stdout_to' = "pipe" /\ tee' = "open"
                  /\ write_ends' = {"lab"} /\ read_ends' = {"tee"}
     ELSE UNCHANGED <<stdout_to, tee, write_ends, read_ends>>
  /\ lab' = "run"
  /\ UNCHANGED <<save, buffered, said, pipe, chunk, log, unlogged, terminal, tmp, file>>

(* pipe, dup or fork fails, and main exits; or dup2 does, when the child   *)
(* is there already and will read an end of file.                          *)
start_output_tee_fails(complaint) ==
  /\ lab = "start" /\ save
  /\ lab' = "exited"
  /\ said' = {complaint} /\ terminal' = {complaint}
  /\ \/ UNCHANGED <<tee, read_ends>>
     \/ tee' = "open" /\ read_ends' = {"tee"}
  /\ UNCHANGED <<save, stdout_to, buffered, pipe, write_ends, chunk, log, unlogged, tmp, file>>

-----------------------------------------------------------------------------
(* Output of the lab, at any point of its run.                             *)

(* printf *)
printf(item) ==
  /\ lab = "run" /\ Len(buffered) < STDIO_SIZE
  /\ buffered' = Append(buffered, item)
  /\ said' = said \cup {item}
  /\ UNCHANGED <<save, stdout_to, pipeVars, teeVars, terminal, tmp, file>>

(* A command prints by itself and the lab waits for it.  Without a reader  *)
(* the command is killed, which system() does not report.                  *)
CommandPrints(item) ==
  /\ lab = "run"
  /\ \/ Write(item) /\ said' = said \cup {item}
     \/ BrokenPipe /\ UNCHANGED <<pipe, terminal, said>>
  /\ UNCHANGED <<save, stdout_to, buffered, write_ends, read_ends, teeVars, tmp, file>>

(* perror, which is not buffered, and exit(EXIT_FAILURE). *)
Fail(item) ==
  /\ lab = "run"
  /\ \/ /\ Write(item)
        /\ said' = said \cup {item}
        /\ lab' = "exit"
        /\ UNCHANGED <<buffered, write_ends>>
     \/ /\ BrokenPipe
        /\ LabGone("killed")
        /\ UNCHANGED <<pipe, terminal, said>>
  /\ UNCHANGED <<save, stdout_to, read_ends, teeVars, tmp, file>>

(* The buffer is written out: when it is full, by the fflush of a prompt   *)
(* or of stop_output_tee, by exit; and line by line on a terminal.         *)
Flushing ==
  \/ lab \in {"prompt", "exit", "stop"}
  \/ lab = "run" /\ (Len(buffered) = STDIO_SIZE \/ stdout_to = "terminal")

Flush ==
  /\ Flushing /\ buffered # <<>>
  /\ Write(Head(buffered))
  /\ buffered' = Tail(buffered)
  /\ UNCHANGED <<lab, save, stdout_to, said, write_ends, read_ends, teeVars, tmp, file>>

(* A write to a pipe that nobody reads ends the process by SIGPIPE. *)
SigPipe ==
  /\ Flushing /\ buffered # <<>>
  /\ BrokenPipe
  /\ LabGone("killed")
  /\ UNCHANGED <<save, stdout_to, said, pipe, read_ends, teeVars, terminal, tmp, file>>

(* exit(EXIT_FAILURE) of a stage: stdio is flushed, descriptors are closed *)
(* and that is all; stop_output_tee is not called.                         *)
Exit ==
  /\ lab = "exit" /\ buffered = <<>>
  /\ LabGone("exited")
  /\ UNCHANGED <<save, stdout_to, said, pipe, read_ends, teeVars, terminal, tmp, file>>

-----------------------------------------------------------------------------
(* stop_output_tee *)

(* Mutant: stdout is not flushed before it is redirected. *)
RestoreUnflushed ==
  /\ lab = "stop"
  /\ stdout_to' = "terminal"
  /\ write_ends' = write_ends \ {"lab"}
  /\ terminal' = terminal \cup Range(buffered)
  /\ buffered' = <<>>
  /\ lab' = "wait"
  /\ UNCHANGED <<save, said, pipe, read_ends, teeVars, tmp, file>>

(* Both streams are flushed before dup2 closes the write ends. *)
RestoreStdout ==
  /\ lab = "stop" /\ buffered = <<>>
  /\ stdout_to' = "terminal"
  /\ write_ends' = write_ends \ {"lab"}
  /\ lab' = "wait"
  /\ UNCHANGED <<save, buffered, said, pipe, read_ends, teeVars, terminal, tmp, file>>

(* Mutant: the child is not waited for. *)
WaitNot ==
  /\ lab = "wait"
  /\ lab' = "rename"
  /\ UNCHANGED <<save, stdioVars, pipeVars, teeVars, terminal, tmp, file>>

(* waitpid *)
WaitForTee ==
  /\ lab = "wait" /\ ~ Copying
  /\ lab' = "rename"
  /\ UNCHANGED <<save, stdioVars, pipeVars, teeVars, terminal, tmp, file>>

(* rename, which may fail: FILE may be a directory. *)
Rename ==
  /\ lab = "rename"
  /\ \/ tmp = "log" /\ file' = "log" /\ tmp' = "none"
     \/ UNCHANGED <<tmp, file>>
  /\ lab' = "ended"
  /\ UNCHANGED <<save, stdioVars, pipeVars, teeVars, terminal>>

stop_output_tee == RestoreStdout \/ WaitForTee \/ Rename

-----------------------------------------------------------------------------
(* The child                                                               *)

TeeGone(how) ==
  /\ tee' = how
  /\ write_ends' = write_ends \ {"tee"}
  /\ read_ends' = read_ends \ {"tee"}

TeeOpens ==
  /\ tee = "open"
  /\ tee' = "read"
  /\ tmp' = "log"
  /\ UNCHANGED <<lab, save, stdioVars, pipeVars, chunk, log, unlogged, terminal, file>>

(* The directory of FILE cannot be written: _exit(1). *)
TeeCannotOpen ==
  /\ tee = "open"
  /\ TeeGone("failed")
  /\ UNCHANGED <<lab, save, stdioVars, pipe, chunk, log, unlogged, terminal, tmp, file>>

(* Mutant: read through stdio, which waits for a full buffer or the end. *)
TeeReadsFully ==
  /\ tee = "read" /\ pipe # <<>>
  /\ Len(pipe) = PIPE_SIZE \/ write_ends = {}
  /\ chunk' = Range(pipe)
  /\ pipe' = <<>>
  /\ tee' = "show"
  /\ UNCHANGED <<lab, save, stdioVars, write_ends, read_ends, log, unlogged, terminal, tmp, file>>

TeeReads ==
  /\ tee = "read" /\ pipe # <<>>
  /\ chunk' = Range(pipe)
  /\ pipe' = <<>>
  /\ tee' = "show"
  /\ UNCHANGED <<lab, save, stdioVars, write_ends, read_ends, log, unlogged, terminal, tmp, file>>

TeeShows ==
  /\ tee = "show"
  /\ terminal' = terminal \cup chunk
  /\ tee' = "log"
  /\ UNCHANGED <<lab, save, stdioVars, pipeVars, chunk, log, unlogged, tmp, file>>

(* The result of write() is not looked at: the disk may be full, and then  *)
(* stays full.                                                             *)
TeeLogs ==
  /\ tee = "log"
  /\ \/ unlogged = {} /\ log' = log \cup chunk /\ UNCHANGED unlogged
     \/ unlogged' = unlogged \cup chunk /\ UNCHANGED log
  /\ chunk' = {}
  /\ tee' = "read"
  /\ UNCHANGED <<lab, save, stdioVars, pipeVars, terminal, tmp, file>>

(* read() returns 0: nothing is left and nobody can write any more. *)
TeeEnds ==
  /\ tee = "read" /\ pipe = <<>> /\ write_ends = {}
  /\ TeeGone("ended")
  /\ UNCHANGED <<lab, save, stdioVars, pipe, chunk, log, unlogged, terminal, tmp, file>>

Tee == TeeOpens \/ TeeCannotOpen \/ TeeReads \/ TeeShows \/ TeeLogs \/ TeeEnds

TeeInterrupted ==
  IF Copying THEN tee' = "interrupted" /\ read_ends' = {} ELSE UNCHANGED <<tee, read_ends>>

(* Ctrl-C on the terminal ends both processes. *)
Interrupt ==
  /\ lab \notin Gone
  /\ LabGone("interrupted")
  /\ TeeInterrupted
  /\ UNCHANGED <<save, stdout_to, said, pipe, chunk, log, unlogged, terminal, tmp, file>>

(* But system() ignores it in the lab as long as a command runs. *)
InterruptCommand ==
  /\ lab = "run"
  /\ TeeInterrupted
  /\ UNCHANGED <<lab, save, stdioVars, pipe, write_ends, chunk, log, unlogged, terminal, tmp, file>>
=============================================================================
