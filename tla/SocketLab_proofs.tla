-------------------------- MODULE SocketLab_proofs --------------------------
(***************************************************************************)
(* The lab and the child that copies its output, for every size of the     *)
(* pipe and of the buffer of stdio: what is printed is neither lost nor    *)
(* doubled, and FILE is replaced whole or not at all.                      *)
(***************************************************************************)
EXTENDS SocketLab, SequenceTheorems, TLAPS

Item == Nat \ {0}

(* The lab still prints, or writes out what it has printed. *)
Talking == {"run", "prompt", "exit", "stop"}

Typed ==
  /\ lab \in {"start", "wait", "rename"} \cup Talking \cup Gone
  /\ tee \in {"none", "open", "read", "show", "log", "ended", "failed", "interrupted"}
  /\ stdout_to \in {"terminal", "pipe"}
  /\ buffered \in Seq(Item) /\ pipe \in Seq(Item)
  /\ chunk \subseteq Item
  /\ at \in Item

(* Who holds the ends of the pipe, and when stdout leads to it.            *)
Wiring ==
  /\ read_ends = IF Copying THEN {"tee"} ELSE {}
  /\ write_ends \subseteq {"lab"}
  /\ stdout_to = "pipe" /\ lab \notin Gone => "lab" \in write_ends
  /\ tee = "none" => stdout_to = "terminal" /\ pipe = <<>>
  /\ tee # "none" /\ lab \in Talking => stdout_to = "pipe"
  /\ tee = "ended" => write_ends = {} /\ pipe = <<>>

Unstarted ==
  lab = "start" => /\ tee = "none" /\ buffered = <<>> /\ at = 1
                   /\ said = {} /\ terminal = {} /\ log = {} /\ unlogged = {}

(* Stdio is flushed before the lab stops talking.                          *)
Quiet == lab \notin Talking => buffered = <<>>

(* What the lab will say next has not been said.                           *)
Fresh ==
  /\ said \subseteq Nat
  /\ lab = "run" => \A x \in said : x < at
  /\ lab = "prompt" => \A x \in said : x <= at
  /\ 0 \in said => lab = "exited"

(* How far main is; and a lab whose child was interrupted has something    *)
(* left to write, which will end it.                                       *)
Progress ==
  /\ lab \in {"stop", "wait", "rename", "ended"} => at > Len(Main)
  /\ lab = "prompt" => Upcoming("enter")
  /\ lab \in {"rename", "ended"} => ~ Copying
  /\ tee = "interrupted" =>
       \/ lab = "exit" \/ lab \in Gone \ {"ended"}
       \/ lab \in {"run", "prompt"} /\ at <= Len(Main)
       \/ lab \in {"run", "stop"} /\ buffered # <<>>

(* Which of the two names stands for what the child has written.           *)
Named ==
  /\ tee \in {"none", "open", "failed"} => tmp = "none"
  /\ tee \in {"read", "show", "log", "ended"} => "log" \in {file, tmp}
  /\ file = "log" => lab = "ended" /\ tee = "ended"

(* Only a child that is gone before its time gets the lab killed.          *)
KilledByPipe == lab = "killed" => tee \in {"failed", "interrupted"}

Unshown == IF tee = "show" THEN chunk ELSE {}
Uncopied == IF tee = "log" THEN chunk ELSE {}

(* OutputIsConserved without its sequence of places; stdio has no item     *)
(* twice.                                                                  *)
Injective(s) == \A j, k \in 1 .. Len(s) : s[j] = s[k] => j = k

Disjoint(A, B) == A \cap B = {}

Conserved ==
  /\ said = Range(buffered) \cup Range(pipe) \cup Unshown \cup terminal
  /\ Disjoint(Range(buffered), Range(pipe)) /\ Disjoint(Range(buffered), Unshown)
  /\ Disjoint(Range(buffered), terminal) /\ Disjoint(Range(pipe), Unshown)
  /\ Disjoint(Range(pipe), terminal) /\ Disjoint(Unshown, terminal)
  /\ tee # "none" => (terminal \ Uncopied) \ {Complaint} = log \cup unlogged
  /\ Disjoint(log, unlogged)
  /\ Injective(buffered)
  /\ Uncopied \subseteq terminal

Structure == Wiring /\ Unstarted /\ Quiet /\ Fresh /\ Progress /\ Named /\ KilledByPipe

LabInv == Typed /\ Structure /\ (Undisturbed => Conserved)
-----------------------------------------------------------------------------
(* Output as a sequence and as a set.                                      *)

LEMMA NothingInside == Range(<<>>) = {} /\ Injective(<<>>)
<1>1. Len(<<>>) = 0 /\ DOMAIN <<>> = {}
  OBVIOUS
<1>. QED
  BY <1>1 DEF Range, Injective

LEMMA OneMore ==
  ASSUME NEW s \in Seq(Item), NEW x \in Item
  PROVE  /\ Append(s, x) \in Seq(Item) /\ Append(s, x) # <<>>
         /\ Range(Append(s, x)) = Range(s) \cup {x}
         /\ Injective(s) /\ x \notin Range(s) => Injective(Append(s, x))
<1>1. /\ Append(s, x) \in Seq(Item)
      /\ Len(Append(s, x)) = Len(s) + 1 /\ Len(s) \in Nat
      /\ Append(s, x)[Len(s) + 1] = x
      /\ \A n \in 1 .. Len(s) : Append(s, x)[n] = s[n]
  OBVIOUS
<1>2. DOMAIN Append(s, x) = 1 .. Len(s) + 1 /\ DOMAIN s = 1 .. Len(s)
  BY <1>1, LenProperties
<1>3. Append(s, x) # <<>>
  BY <1>1, EmptySeq
<1>4. Range(Append(s, x)) = Range(s) \cup {x}
  BY <1>1, <1>2 DEF Range
<1>5. ASSUME Injective(s), x \notin Range(s)
      PROVE  Injective(Append(s, x))
  <2>1. \A n \in 1 .. Len(s) : s[n] # x
    BY <1>2, <1>5 DEF Range
  <2>2. \A j, k \in 1 .. Len(s) : s[j] = s[k] => j = k
    BY <1>5 DEF Injective
  <2>. QED
    BY <1>1, <2>1, <2>2 DEF Injective
<1>. QED
  BY <1>1, <1>3, <1>4, <1>5

LEMMA OneLess ==
  ASSUME NEW s \in Seq(Item), s # <<>>
  PROVE  /\ Head(s) \in Item /\ Tail(s) \in Seq(Item)
         /\ Range(s) = Range(Tail(s)) \cup {Head(s)}
         /\ Injective(s) => Injective(Tail(s)) /\ Head(s) \notin Range(Tail(s))
<1>1. /\ Head(s) \in Item /\ Tail(s) \in Seq(Item)
      /\ Len(s) \in Nat \ {0} /\ Len(Tail(s)) = Len(s) - 1
      /\ Head(s) = s[1]
      /\ \A n \in 1 .. Len(s) - 1 : Tail(s)[n] = s[n + 1]
  BY EmptySeq, HeadTailProperties
<1>2. DOMAIN Tail(s) = 1 .. Len(s) - 1 /\ DOMAIN s = 1 .. Len(s)
  BY <1>1, LenProperties
<1>3. Range(s) = Range(Tail(s)) \cup {Head(s)}
  <2>1. ASSUME NEW n \in 1 .. Len(s), n # 1
        PROVE  n - 1 \in 1 .. Len(s) - 1 /\ s[n] = Tail(s)[n - 1]
    BY <1>1, <2>1
  <2>2. ASSUME NEW y \in Range(s) PROVE y \in Range(Tail(s)) \cup {Head(s)}
    <3>1. PICK n \in 1 .. Len(s) : y = s[n]
      BY <1>2 DEF Range
    <3>. QED
      BY <1>1, <1>2, <2>1, <3>1 DEF Range
  <2>3. ASSUME NEW y \in Range(Tail(s)) PROVE y \in Range(s)
    <3>1. PICK n \in 1 .. Len(s) - 1 : y = Tail(s)[n]
      BY <1>2 DEF Range
    <3>2. n + 1 \in 1 .. Len(s) /\ s[n + 1] = y
      BY <1>1, <3>1
    <3>. QED
      BY <1>2, <3>2 DEF Range
  <2>4. Head(s) \in Range(s)
    BY <1>1, <1>2 DEF Range
  <2>. QED
    BY <2>2, <2>3, <2>4
<1>4. ASSUME Injective(s)
      PROVE  Injective(Tail(s)) /\ Head(s) \notin Range(Tail(s))
  <2>1. \A j, k \in 1 .. Len(s) : s[j] = s[k] => j = k
    BY <1>4 DEF Injective
  <2>2. Injective(Tail(s))
    BY <1>1, <2>1 DEF Injective
  <2>3. \A n \in 1 .. Len(s) - 1 : Tail(s)[n] # Head(s)
    BY <1>1, <2>1
  <2>. QED
    BY <1>2, <2>2, <2>3 DEF Range
<1>. QED
  BY <1>1, <1>3, <1>4

(* The last step of main prints.                                           *)
LEMMA MainPrintsLast == Len(Main) \in Nat \ {0} /\ Main[Len(Main)] = "print"
<1>. DEFINE Step == {"print", "enter", "try", "command", "send"}
            before == greeting \o create_socket \o inspect_socket \o resolve_dns
                      \o show_traceroute \o connect_socket \o build_http_request
                      \o send_request \o receive_response \o close_socket
<1>1. before \in Seq(Step)
  <2>1. /\ greeting \in Seq(Step) /\ create_socket \in Seq(Step)
        /\ inspect_socket \in Seq(Step) /\ resolve_dns \in Seq(Step)
        /\ show_traceroute \in Seq(Step)
    BY DEF greeting, create_socket, inspect_socket, resolve_dns, show_traceroute
  <2>2. /\ connect_socket \in Seq(Step) /\ build_http_request \in Seq(Step)
        /\ send_request \in Seq(Step) /\ receive_response \in Seq(Step)
        /\ close_socket \in Seq(Step)
    BY DEF connect_socket, build_http_request, send_request, receive_response, close_socket
  <2>. HIDE DEF Step
  <2>. QED
    BY <2>1, <2>2, ConcatProperties
<1>2. lab_complete \in Seq(Step) /\ Len(lab_complete) = 1 /\ lab_complete[1] = "print"
  BY DEF lab_complete
<1>3. Main = before \o lab_complete
  BY DEF Main
<1>. HIDE DEF before, Step
<1>4. /\ Len(before \o lab_complete) = Len(before) + 1
      /\ (before \o lab_complete)[Len(before) + 1] = "print"
      /\ Len(before) \in Nat
  BY <1>1, <1>2, ConcatProperties
<1>. QED
  BY <1>3, <1>4
-----------------------------------------------------------------------------
(* What main, the child and the user do, step by step.                     *)

LEMMA InitHolds == LabInit => LabInv
<1>. SUFFICES ASSUME LabInit PROVE LabInv
  OBVIOUS
<1>1. Typed
  BY DEF LabInit, TranscriptInit, Typed, Item
<1>2. Structure
  BY DEF LabInit, TranscriptInit, Structure, Wiring, Unstarted, Quiet, Fresh, Progress, Named,
         KilledByPipe, Copying, Talking, Gone
<1>3. Conserved
  BY NothingInside DEF LabInit, TranscriptInit, Conserved, Unshown, Uncopied, Disjoint
<1>. QED
  BY <1>1, <1>2, <1>3 DEF LabInv

(* Where an item goes that is written, and one that is printed.            *)
LEMMA Writing ==
  ASSUME Typed, Wiring, NEW x \in Item, Write(x)
  PROVE  /\ pipe' \in Seq(Item)
         /\ UNCHANGED pipe \/ (tee # "none" /\ Copying)
         /\ \/ /\ stdout_to = "terminal" /\ UNCHANGED pipe
               /\ terminal' = terminal \cup {x}
            \/ /\ stdout_to = "pipe" /\ UNCHANGED terminal
               /\ pipe' = Append(pipe, x)
               /\ Range(pipe') = Range(pipe) \cup {x}
<1>1. Append(pipe, x) \in Seq(Item) /\ Range(Append(pipe, x)) = Range(pipe) \cup {x}
  BY OneMore DEF Typed
<1>2. CASE stdout_to = "terminal"
  BY <1>2 DEF Write, Typed
<1>3. CASE stdout_to = "pipe"
  <2>1. tee # "none" /\ Copying
    BY <1>3 DEF Write, Wiring, Copying
  <2>. QED
    BY <1>1, <1>3, <2>1 DEF Write
<1>. QED
  BY <1>2, <1>3 DEF Typed

LEMMA Printing ==
  ASSUME Typed, printf(at)
  PROVE  /\ buffered' \in Seq(Item) /\ buffered' # <<>>
         /\ Range(buffered') = Range(buffered) \cup {at}
         /\ Injective(buffered) /\ at \notin Range(buffered) => Injective(buffered')
<1>1. buffered \in Seq(Item) /\ at \in Item /\ buffered' = Append(buffered, at)
  BY DEF Typed, printf
<1>. QED
  BY <1>1, OneMore

LEMMA Flushed ==
  ASSUME Typed, Wiring, Flush
  PROVE  /\ Write(Head(buffered)) /\ Head(buffered) \in Item
         /\ buffered' = Tail(buffered) /\ buffered' \in Seq(Item)
         /\ Range(buffered) = Range(buffered') \cup {Head(buffered)}
         /\ Injective(buffered)
               => Injective(buffered') /\ Head(buffered) \notin Range(buffered')
<1>1. /\ buffered \in Seq(Item) /\ buffered # <<>>
      /\ Write(Head(buffered)) /\ buffered' = Tail(buffered)
  BY DEF Typed, Flush
<1>. QED
  BY <1>1, OneLess

LEMMA StructureStep ==
  ASSUME Typed, Structure, [LabNext]_labVars
  PROVE  Typed' /\ Structure'
<1>w. Write(at) => pipe' \in Seq(Item) /\ (pipe = pipe' \/ (tee # "none" /\ Copying))
  BY Writing DEF Typed, Structure
<1>p. printf(at) => buffered' \in Seq(Item) /\ buffered' # <<>>
  BY Printing
<1>f. Flush => /\ pipe' \in Seq(Item) /\ (pipe = pipe' \/ (tee # "none" /\ Copying))
               /\ buffered' \in Seq(Item)
  BY Writing, Flushed DEF Structure
<1>t. at \in Item /\ at + 1 \in Item
  BY DEF Typed, Item
<1>s. ASSUME lab = "run", said' \in {said, said \cup {at}}
      PROVE  said' \subseteq Nat /\ 0 \notin said' /\ \A x \in said' : x <= at /\ x < at + 1
  BY <1>s DEF Typed, Item, Structure, Fresh
<1>. USE MainPrintsLast
     DEF Typed, Item, Talking, Gone, Copying, Structure, Wiring, Unstarted, Quiet, Fresh,
         Progress, Named, KilledByPipe, Upcoming, stdioVars, pipeVars, teeVars, transcriptVars
<1>1. CASE start_output_tee /\ UNCHANGED <<at, interactive>>
  BY <1>1 DEF start_output_tee
<1>2. CASE start_output_tee_fails(Complaint) /\ UNCHANGED <<at, interactive>>
  BY <1>2 DEF start_output_tee_fails, Complaint
<1>3. CASE PrintStep
  BY <1>3, <1>p, SMTT(60) DEF PrintStep, printf
<1>4. CASE run_command
  <2>1. pipe' \in Seq(Item) /\ (pipe = pipe' \/ (tee # "none" /\ Copying))
    BY <1>4, <1>w DEF run_command, CommandPrints
  <2>2. at < Len(Main)
    BY <1>4 DEF run_command
  <2>3. lab' = "run" /\ Fresh'
    <3>1. lab = "run" /\ lab' = "run" /\ at' = at + 1 /\ said' \in {said, said \cup {at}}
      BY <1>4 DEF run_command, CommandPrints
    <3>. QED
      BY <1>s, <3>1
  <2>. QED
    BY <1>4, <2>1, <2>2, <2>3 DEF run_command, CommandPrints
<1>5. CASE TrySucceeds
  BY <1>5 DEF TrySucceeds, Trying
<1>6. CASE TryFails
  <2>1. pipe' \in Seq(Item) /\ (pipe = pipe' \/ (tee # "none" /\ Copying))
    BY <1>6, <1>w DEF TryFails, Fail
  <2>2. said' \subseteq Nat /\ 0 \notin said'
    <3>1. lab = "run" /\ said' \in {said, said \cup {at}}
      BY <1>6 DEF TryFails, Fail
    <3>. QED
      BY <1>s, <3>1
  <2>3. CASE BrokenPipe /\ LabGone("killed") /\ UNCHANGED <<pipe, said>>
    BY <1>6, <2>3 DEF TryFails, Fail, BrokenPipe, LabGone
  <2>4. CASE lab' = "exit" /\ UNCHANGED <<buffered, write_ends>>
    BY <1>6, <2>1, <2>2, <2>4 DEF TryFails, Fail
  <2>. QED
    BY <1>6, <2>3, <2>4 DEF TryFails, Fail
<1>7. CASE SendKills
  BY <1>7 DEF SendKills, LabGone
<1>8. CASE wait_enter
  <2>2. CASE lab' = "prompt"
    <3>1. printf(at) \/ (UNCHANGED transcriptVars /\ lab = "run")
      BY <1>8 DEF wait_enter
    <3>2. buffered' \in Seq(Item)
      BY <1>8, <2>2, <3>1, <1>p
    <3>3. printf(at) /\ Upcoming("enter") /\ UNCHANGED at
      BY <1>8, <2>2 DEF wait_enter
    <3>4. said' \subseteq Nat /\ 0 \notin said' /\ \A x \in said' : x <= at
      BY <1>s, <3>3 DEF printf
    <3>. QED
      BY <2>2, <3>2, <3>3, <3>4 DEF printf
  <2>3. CASE lab' # "prompt"
    <3>1. at < Len(Main)
      BY <1>8 DEF wait_enter
    <3>2. UNCHANGED transcriptVars /\ lab = "run" /\ at' = at + 1
      BY <1>8, <2>3 DEF wait_enter
    <3>. QED
      BY <3>1, <3>2
  <2>. QED
    BY <2>2, <2>3
<1>9. CASE Return
  BY <1>9 DEF Return
<1>10. CASE Flush /\ UNCHANGED <<at, interactive>>
  <2>1. tee # "interrupted"
    BY <1>10 DEF Flush, Flushing, Write
  <2>. QED
    BY <1>10, <1>f, <2>1 DEF Flush, Flushing
<1>11. CASE SigPipe /\ UNCHANGED <<at, interactive>>
  BY <1>11 DEF SigPipe, Flushing, BrokenPipe, LabGone
<1>12. CASE Exit /\ UNCHANGED <<at, interactive>>
  BY <1>12 DEF Exit, LabGone
<1>13. CASE RestoreStdout /\ UNCHANGED <<at, interactive>>
  BY <1>13 DEF RestoreStdout
<1>14. CASE WaitForTee /\ UNCHANGED <<at, interactive>>
  BY <1>14 DEF WaitForTee
<1>15. CASE Rename /\ UNCHANGED <<at, interactive>>
  BY <1>15 DEF Rename
<1>16. CASE PressEnter
  BY <1>16 DEF PressEnter
<1>17. CASE TeeOpens /\ UNCHANGED <<at, interactive>>
  BY <1>17 DEF TeeOpens
<1>18. CASE TeeCannotOpen /\ UNCHANGED <<at, interactive>>
  BY <1>18 DEF TeeCannotOpen, TeeGone
<1>19. CASE TeeReads /\ UNCHANGED <<at, interactive>>
  BY <1>19 DEF TeeReads, Range
<1>20. CASE TeeShows /\ UNCHANGED <<at, interactive>>
  BY <1>20 DEF TeeShows
<1>21. CASE TeeLogs /\ UNCHANGED <<at, interactive>>
  BY <1>21 DEF TeeLogs
<1>22. CASE TeeEnds /\ UNCHANGED <<at, interactive>>
  BY <1>22 DEF TeeEnds, TeeGone
<1>23. CASE Interrupt /\ UNCHANGED <<at, interactive>>
  BY <1>23 DEF Interrupt, LabGone, TeeInterrupted
<1>24. CASE Upcoming("command") /\ InterruptCommand /\ at' = at + 1 /\ UNCHANGED interactive
  BY <1>24 DEF InterruptCommand, TeeInterrupted
<1>25. CASE UNCHANGED labVars
  BY <1>25 DEF labVars
<1>. QED
  BY <1>1, <1>2, <1>3, <1>4, <1>5, <1>6, <1>7, <1>8, <1>9, <1>10, <1>11, <1>12, <1>13, <1>14,
     <1>15, <1>16, <1>17, <1>18, <1>19, <1>20, <1>21, <1>22, <1>23, <1>24, <1>25
     DEF LabNext, LabStep, Ending, stop_output_tee, TeeStep, Tee, CtrlC
-----------------------------------------------------------------------------
(* What is printed and where it is, step by step.                          *)

(* What disturbs the lab is not undone.                                    *)
LEMMA DisturbedForGood ==
  ASSUME Typed, Unstarted, [LabNext]_labVars, Undisturbed'
  PROVE  Undisturbed
<1>. USE DEF Undisturbed, Unstarted, Gone, Copying, stdioVars, pipeVars, teeVars, transcriptVars
<1>1. CASE (start_output_tee \/ start_output_tee_fails(Complaint)) /\ UNCHANGED <<at, interactive>>
  BY <1>1 DEF start_output_tee, start_output_tee_fails
<1>2. CASE PrintStep \/ run_command \/ wait_enter \/ PressEnter
  BY <1>2 DEF PrintStep, run_command, wait_enter, PressEnter, printf, CommandPrints
<1>3. CASE TrySucceeds \/ TryFails \/ SendKills \/ Return
  BY <1>3 DEF TrySucceeds, TryFails, SendKills, Return, Fail, LabGone
<1>4. CASE Ending
  BY <1>4 DEF Ending, Flush, SigPipe, Flushing, Exit, LabGone, stop_output_tee, RestoreStdout,
              WaitForTee, Rename
<1>5. CASE TeeStep
  BY <1>5 DEF TeeStep, Tee, TeeGone, TeeOpens, TeeCannotOpen, TeeReads, TeeShows, TeeLogs, TeeEnds
<1>6. CASE CtrlC
  BY <1>6 DEF CtrlC, Interrupt, InterruptCommand, LabGone, TeeInterrupted
<1>7. CASE UNCHANGED labVars
  BY <1>7 DEF labVars
<1>. QED
  BY <1>1, <1>2, <1>3, <1>4, <1>5, <1>6, <1>7 DEF LabNext, LabStep

(* The lab is not killed by the pipe as long as the child is there.        *)
LEMMA PipeHolds ==
  ASSUME Typed, Wiring, Undisturbed, lab \in Talking
  PROVE  ~ BrokenPipe
BY DEF Typed, Wiring, Undisturbed, Talking, Gone, Copying, BrokenPipe

LEMMA StillConserved ==
  ASSUME Conserved, UNCHANGED <<buffered, said, pipe, terminal, log, unlogged>>,
         \/ UNCHANGED <<tee, chunk>>
         \/ {tee, tee'} \subseteq {"open", "read", "ended"}
  PROVE  Conserved'
BY DEF Conserved, Disjoint, Injective, Range, Unshown, Uncopied

(* Of an item that is printed and written at once.                         *)
LEMMA WrittenConserved ==
  ASSUME Typed, Wiring, Fresh, Conserved, lab = "run",
         Write(at), said' = said \cup {at},
         UNCHANGED <<buffered, tee, chunk, log, unlogged>>
  PROVE  Conserved'
<1>1. at \in Item /\ at \notin said
  BY DEF Typed, Item, Fresh
<1>2. /\ Range(buffered') = Range(buffered) /\ (Injective(buffered) <=> Injective(buffered'))
      /\ Unshown' = Unshown /\ Uncopied' = Uncopied
  BY DEF Unshown, Uncopied
<1>3. CASE stdout_to = "terminal" /\ UNCHANGED pipe /\ terminal' = terminal \cup {at}
  <2>1. tee = "none" /\ Range(pipe') = Range(pipe)
    BY <1>3 DEF Wiring, Talking
  <2>. QED
    BY <1>1, <1>2, <1>3, <2>1 DEF Conserved, Disjoint
<1>4. CASE UNCHANGED terminal /\ Range(pipe') = Range(pipe) \cup {at}
  BY <1>1, <1>2, <1>4 DEF Conserved, Disjoint
<1>. QED
  BY <1>1, <1>3, <1>4, Writing

LEMMA ConservedStep ==
  ASSUME Typed, Structure, Conserved, [LabNext]_labVars, Undisturbed, Undisturbed'
  PROVE  Conserved'
<1>. USE DEF Structure, stdioVars, pipeVars, teeVars, transcriptVars
<1>1. CASE start_output_tee
  BY <1>1, NothingInside
     DEF start_output_tee, Unstarted, Wiring, Conserved, Disjoint, Unshown, Uncopied
<1>2. CASE start_output_tee_fails(Complaint)
  BY <1>2, NothingInside
     DEF start_output_tee_fails, Unstarted, Wiring, Conserved, Disjoint, Unshown, Uncopied,
         Complaint
<1>3. CASE printf(at)
  <2>1. /\ lab = "run" /\ said' = said \cup {at}
        /\ UNCHANGED <<pipe, terminal, tee, chunk, log, unlogged>>
    BY <1>3 DEF printf
  <2>2. at \in Item /\ at \notin said
    BY <2>1 DEF Typed, Item, Fresh
  <2>3. Range(buffered') = Range(buffered) \cup {at} /\ Injective(buffered')
    BY <1>3, <2>2, Printing DEF Conserved
  <2>4. Range(pipe') = Range(pipe) /\ Unshown' = Unshown /\ Uncopied' = Uncopied
    BY <2>1 DEF Unshown, Uncopied
  <2>. QED
    BY <2>1, <2>2, <2>3, <2>4 DEF Conserved, Disjoint
<1>4. CASE run_command \/ TryFails
  <2>1. lab = "run" /\ ~ BrokenPipe
    BY <1>4, PipeHolds DEF run_command, CommandPrints, TryFails, Fail, Talking
  <2>2. /\ Write(at) /\ said' = said \cup {at}
        /\ UNCHANGED <<buffered, tee, chunk, log, unlogged>>
    BY <1>4, <2>1 DEF run_command, CommandPrints, TryFails, Fail
  <2>. QED
    BY <2>1, <2>2, WrittenConserved
<1>5. CASE Flush
  <2>. DEFINE x == Head(buffered)
  <2>1. /\ Write(x) /\ x \in Item
        /\ Range(buffered) = Range(buffered') \cup {x}
        /\ Injective(buffered') /\ x \notin Range(buffered')
    BY <1>5, Flushed DEF Conserved
  <2>2. UNCHANGED <<said, tee, chunk, log, unlogged>> /\ lab \in Talking
    BY <1>5 DEF Flush, Flushing, Talking
  <2>3. Unshown' = Unshown /\ Uncopied' = Uncopied
    BY <2>2 DEF Unshown, Uncopied
  <2>. HIDE DEF x
  <2>4. CASE stdout_to = "terminal" /\ UNCHANGED pipe /\ terminal' = terminal \cup {x}
    <3>1. tee = "none" /\ Range(pipe') = Range(pipe)
      BY <2>2, <2>4 DEF Wiring
    <3>. QED
      BY <2>1, <2>2, <2>3, <2>4, <3>1 DEF Conserved, Disjoint
  <2>5. CASE UNCHANGED terminal /\ Range(pipe') = Range(pipe) \cup {x}
    BY <2>1, <2>2, <2>3, <2>5 DEF Conserved, Disjoint
  <2>. QED
    BY <2>1, <2>4, <2>5, Writing
<1>6. CASE TeeReads
  <2>1. /\ tee = "read" /\ tee' = "show" /\ chunk' = Range(pipe) /\ pipe' = <<>>
        /\ UNCHANGED <<buffered, said, terminal, log, unlogged>>
    BY <1>6 DEF TeeReads
  <2>2. Range(pipe') = {} /\ Range(buffered') = Range(buffered) /\ Injective(buffered')
    BY <2>1, NothingInside DEF Conserved
  <2>3. Unshown = {} /\ Unshown' = Range(pipe) /\ Uncopied = {} /\ Uncopied' = {}
    BY <2>1 DEF Unshown, Uncopied
  <2>. QED
    BY <2>1, <2>2, <2>3 DEF Conserved, Disjoint
<1>7. CASE TeeShows
  <2>1. /\ tee = "show" /\ tee' = "log" /\ terminal' = terminal \cup chunk
        /\ UNCHANGED <<buffered, said, pipe, chunk, log, unlogged>>
    BY <1>7 DEF TeeShows
  <2>2. /\ Range(pipe') = Range(pipe) /\ Range(buffered') = Range(buffered)
        /\ Injective(buffered')
    BY <2>1 DEF Conserved
  <2>3. Unshown = chunk /\ Unshown' = {} /\ Uncopied = {} /\ Uncopied' = chunk
    BY <2>1 DEF Unshown, Uncopied
  <2>. QED
    BY <2>1, <2>2, <2>3 DEF Conserved, Disjoint
<1>8. CASE TeeLogs
  <2>1. /\ tee = "log" /\ tee' = "read"
        /\ log' \cup unlogged' = log \cup unlogged \cup chunk
        /\ \/ log' = log \cup chunk /\ unlogged' = {}
           \/ unlogged' = unlogged \cup chunk /\ log' = log
        /\ UNCHANGED <<buffered, said, pipe, terminal>>
    BY <1>8 DEF TeeLogs
  <2>2. /\ Range(pipe') = Range(pipe) /\ Range(buffered') = Range(buffered)
        /\ Injective(buffered')
    BY <2>1 DEF Conserved
  <2>3. Unshown = {} /\ Unshown' = {} /\ Uncopied = chunk /\ Uncopied' = {}
    BY <2>1 DEF Unshown, Uncopied
  <2>4. Complaint \notin chunk
    BY DEF Typed, Item, Complaint
  <2>5. Disjoint(log, chunk)
    BY <2>1, <2>3 DEF Conserved, Disjoint
  <2>. QED
    BY <2>1, <2>2, <2>3, <2>4, <2>5 DEF Conserved, Disjoint
<1>9. CASE TrySucceeds \/ Return \/ PressEnter \/ UNCHANGED labVars
  BY <1>9, StillConserved DEF TrySucceeds, Return, PressEnter, labVars
<1>10. CASE stop_output_tee \/ Exit
  BY <1>10, StillConserved
     DEF stop_output_tee, RestoreStdout, WaitForTee, Rename, Exit, LabGone
<1>11. CASE TeeOpens \/ TeeEnds
  BY <1>11, StillConserved DEF TeeOpens, TeeEnds, TeeGone
<1>12. CASE InterruptCommand
  BY <1>12, StillConserved DEF InterruptCommand, TeeInterrupted, Undisturbed
<1>13. ~ SendKills /\ ~ Interrupt /\ ~ TeeCannotOpen
  BY DEF SendKills, Interrupt, TeeCannotOpen, LabGone, TeeGone, Undisturbed
<1>14. ~ SigPipe
  BY PipeHolds DEF SigPipe, Flushing, Talking
<1>15. CASE wait_enter
  BY <1>3, <1>15, StillConserved DEF wait_enter
<1>16. CASE Ending
  BY <1>5, <1>10, <1>14, <1>16 DEF Ending
<1>17. CASE TeeStep
  BY <1>6, <1>7, <1>8, <1>11, <1>13, <1>17 DEF TeeStep, Tee
<1>. QED
  BY <1>1, <1>2, <1>3, <1>4, <1>9, <1>12, <1>13, <1>15, <1>16, <1>17
     DEF LabNext, LabStep, CtrlC, PrintStep

(* Every step of main, of the child and of the user keeps what holds the   *)
(* pipe together: who has its two ends, that the buffer of stdio is        *)
(* written out before the lab goes, and where each printed item is.        *)
THEOREM LabInvariant == LabSpec => []LabInv
<1>1. LabInv /\ [LabNext]_labVars => LabInv'
  <2>. SUFFICES ASSUME LabInv, [LabNext]_labVars PROVE LabInv'
    OBVIOUS
  <2>1. Typed' /\ Structure'
    BY StructureStep DEF LabInv
  <2>2. ASSUME Undisturbed' PROVE Conserved'
    <3>1. Undisturbed
      BY <2>2, DisturbedForGood DEF LabInv, Structure
    <3>. QED
      BY <2>2, <3>1, ConservedStep DEF LabInv
  <2>. QED
    BY <2>1, <2>2 DEF LabInv
<1>. QED
  BY <1>1, InitHolds, PTL DEF LabSpec

LEMMA ConservedInPlaces == LabInv => OutputIsConserved
<1>. SUFFICES ASSUME LabInv, Undisturbed PROVE OutputIsConserved
  BY DEF OutputIsConserved
<1>. DEFINE places == <<Range(buffered), Range(pipe), Unshown, terminal>>
<1>1. Conserved
  BY DEF LabInv
<1>2. /\ Len(places) = 4 /\ Range(places) = {places[1], places[2], places[3], places[4]}
      /\ places[1] = Range(buffered) /\ places[2] = Range(pipe)
      /\ places[3] = Unshown /\ places[4] = terminal
  BY DEF Range
<1>. HIDE DEF places
<1>3. said = UNION Range(places)
  BY <1>1, <1>2 DEF Conserved
<1>4. \A j, k \in 1 .. Len(places) : j # k => places[j] \cap places[k] = {}
  <2>. SUFFICES ASSUME NEW j \in 1 .. 4, NEW k \in 1 .. 4, j # k
                PROVE  places[j] \cap places[k] = {}
    BY <1>2
  <2>1. j \in {1, 2, 3, 4} /\ k \in {1, 2, 3, 4}
    OBVIOUS
  <2>. QED
    BY <1>1, <1>2, <2>1 DEF Conserved, Disjoint
<1>. USE DEF places
<1>. QED
  BY <1>1, <1>3, <1>4 DEF OutputIsConserved, Conserved, Disjoint, Unshown, Uncopied

(* Nothing printed is lost or copied twice between printf and the terminal *)
(* and the transcript, whatever the sizes of the pipe and of the buffer.   *)
THEOREM OutputIsNeverLost == LabSpec => []OutputIsConserved
BY LabInvariant, ConservedInPlaces, PTL

LEMMA WholeWhenEnded == LabInv => TranscriptIsWhole
<1>. SUFFICES ASSUME LabInv PROVE TranscriptIsWhole
  OBVIOUS
<1>1. Typed /\ Structure
  BY DEF LabInv
<1>2. ASSUME tee = "ended", lab \in {"ended", "exited"}
      PROVE  said = terminal /\ said \ {Complaint} = log \cup unlogged
  <2>1. Conserved
    BY <1>2 DEF LabInv, Undisturbed
  <2>2. buffered = <<>> /\ pipe = <<>>
    BY <1>1, <1>2 DEF Structure, Quiet, Wiring, Talking
  <2>3. Unshown = {} /\ Uncopied = {}
    BY <1>2 DEF Unshown, Uncopied
  <2>. QED
    BY <1>2, <2>1, <2>2, <2>3, NothingInside DEF Conserved
<1>3. ASSUME file = "log"
      PROVE  /\ at > Len(Main) /\ tee = "ended" /\ lab = "ended"
             /\ said = terminal /\ said = log \cup unlogged
  <2>1. at > Len(Main) /\ tee = "ended" /\ lab = "ended"
    BY <1>1, <1>3 DEF Structure, Named, Progress
  <2>2. Complaint \notin said
    BY <1>1, <2>1 DEF Structure, Fresh, Complaint
  <2>. QED
    BY <1>2, <2>1, <2>2
<1>4. tee = "ended" => "log" \in {file, tmp}
  BY <1>1 DEF Structure, Named
<1>. QED
  BY <1>2, <1>3, <1>4 DEF TranscriptIsWhole

(* FILE is replaced only after every stage of main, and then by all of the *)
(* output; a run that stops earlier leaves it under the temporary name.    *)
THEOREM TranscriptIsReplacedWhole == LabSpec => []TranscriptIsWhole
BY LabInvariant, WholeWhenEnded, PTL
=============================================================================
