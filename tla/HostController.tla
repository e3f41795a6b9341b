---------------------------- MODULE HostController ----------------------------
(***************************************************************************)
(* The parent side of the host executor, execute_with_path: one attempt to *)
(* run a request in a child process.  The controller is a polling loop of  *)
(* system calls; the kernel, the child (the leader of a fresh process      *)
(* group) and a process that the child starts run between any two of them. *)
(*                                                                         *)
(* The child is an arbitrary program, as executor_path may name any: it    *)
(* may stop reading, write anything, close its pipes, start a helper that  *)
(* outlives it, hang, or exit at any moment.  One helper stands for all.   *)
(* Pipes carry chunks; a response frame is the chunk "head" followed by    *)
(* the chunk that names its content, and any other sequence is malformed.  *)
(* The configuration is Unix; the pid of the child is not reused during an *)
(* attempt, and a signal to a live member of its group cannot fail, as the *)
(* controller may signal its own descendants.                              *)
(***************************************************************************)
EXTENDS Naturals, Sequences

CONSTANTS
  FrameChunks,  \* length of the request frame
  PipeSize,     \* capacity of a pipe
  MaxOutput,    \* MAX_HOST_RESPONSE_FRAME_BYTES
  Disturbances  \* what may happen to the controller: "failure", "stall"

ASSUME SizeAssumption ==
  /\ FrameChunks \in Nat \ {0}
  /\ PipeSize \in Nat \ {0}
  /\ MaxOutput \in Nat \ {0}
ASSUME DisturbanceAssumption == Disturbances \subseteq {"failure", "stall"}

VARIABLES
  pc,           \* where the controller is
  sent,         \* chunks of the request written (input_offset)
  inputClosed,
  output,       \* what the controller has read
  outputEof,
  status,       \* the exit status it has reaped, or "none"
  grace,        \* "off", "running" once the exit was observed, "over"
  late,         \* TRUE once the deadline has passed
  forced,       \* forced_reason
  receipt,      \* the HostExecutionReceipt, once there is one
  disturbed,    \* history: a system call other than kill failed, or the controller was
                \* descheduled for a whole grace period
  leader,       \* the child
  helper,       \* a process that the child started
  readers,      \* processes that hold the read end of stdin
  writers,      \* processes that hold the write end of stdout
  toChild,      \* chunks in the stdin pipe
  fromChild,    \* chunks in the stdout pipe
  received,     \* history: chunks of the request that were read
  written       \* history: all that was written to stdout

ctl == <<sent, inputClosed, output, outputEof, status, grace, forced, receipt, disturbed>>
kernel == <<leader, helper, readers, writers, toChild, fromChild, received, written>>
hostVars == <<pc, sent, inputClosed, output, outputEof, status, grace, late, forced, receipt, disturbed,
          leader, helper, readers, writers, toChild, fromChild, received, written>>

NoReceipt == [status |-> "none", reason |-> "none"]

Content == {"completed", "failed", "foreign"}   \* foreign: bound to another request
Chunk == {"head"} \union Content

Loop == {"write", "drain", "wait", "group", "clock"}
Exits == {"zero", "nonzero", "killed"}         \* nonzero: or by a signal of its own

Alive(p) ==
  IF p = "leader" THEN leader = "running" ELSE helper \in {"grouped", "escaped"}

Reasons ==
  { "RequestWriteFailed", "Timeout", "OutputLimitExceeded", "OutputReadFailed",
    "DescendantDetected", "ProcessWaitFailed" }

-----------------------------------------------------------------------------
(* The child and its helper.                                               *)

Read(p) ==
  /\ Alive(p)
  /\ p \in readers
  /\ toChild > 0
  /\ toChild' = toChild - 1
  /\ received' = received + 1
  /\ UNCHANGED <<pc, late, ctl, leader, helper, readers, writers, fromChild, written>>

\* Of what is beyond the limit nothing is kept but its length.
Overlong == [i \in 1..MaxOutput + 1 |-> "head"]
Kept(data, chunk) == IF Len(data) >= MaxOutput THEN Overlong ELSE Append(data, chunk)

Write(p, chunk) ==
  /\ Alive(p)
  /\ p \in writers
  /\ pc \in {"setup"} \union Loop
  /\ Len(fromChild) < PipeSize
  /\ fromChild' = Append(fromChild, chunk)
  /\ written' = Kept(written, chunk)
  /\ UNCHANGED <<pc, late, ctl, leader, helper, readers, writers, toChild, received>>

CloseOutput(p) ==
  /\ Alive(p)
  /\ p \in writers
  /\ writers' = writers \ {p}
  /\ UNCHANGED <<pc, late, ctl, leader, helper, readers, toChild, fromChild, received, written>>

CloseInput(p) ==
  /\ Alive(p)
  /\ p \in readers
  /\ readers' = readers \ {p}
  /\ UNCHANGED <<pc, late, ctl, leader, helper, writers, toChild, fromChild, received, written>>

\* The leader starts the helper, which inherits its pipes and its group.
Fork ==
  /\ leader = "running"
  /\ helper = "none"
  /\ helper' = "grouped"
  /\ readers' = readers \union (IF "leader" \in readers THEN {"helper"} ELSE {})
  /\ writers' = writers \union (IF "leader" \in writers THEN {"helper"} ELSE {})
  /\ UNCHANGED <<pc, late, ctl, leader, toChild, fromChild, received, written>>

\* The helper creates a session of its own and leaves the group.
Escape ==
  /\ helper = "grouped"
  /\ helper' = "escaped"
  /\ UNCHANGED <<pc, late, ctl, leader, readers, writers, toChild, fromChild, received, written>>

LeaderExits(code) ==
  /\ leader = "running"
  /\ leader' = code
  /\ readers' = readers \ {"leader"}
  /\ writers' = writers \ {"leader"}
  /\ UNCHANGED <<pc, late, ctl, helper, toChild, fromChild, received, written>>

HelperExits ==
  /\ Alive("helper")
  /\ helper' = "gone"
  /\ readers' = readers \ {"helper"}
  /\ writers' = writers \ {"helper"}
  /\ UNCHANGED <<pc, late, ctl, leader, toChild, fromChild, received, written>>

\* They are followed up to the receipt.
Processes ==
  /\ pc # "done"
  /\ \/ \E p \in {"leader", "helper"} :
          \/ Read(p)
          \/ \E chunk \in Chunk : Write(p, chunk)
          \/ CloseOutput(p)
          \/ CloseInput(p)
     \/ Fork
     \/ Escape
     \/ \E code \in {"zero", "nonzero"} : LeaderExits(code)
     \/ HelperExits

-----------------------------------------------------------------------------
(* Time.                                                                   *)

DeadlinePasses ==
  /\ pc \in Loop
  /\ ~late
  /\ late' = TRUE
  /\ UNCHANGED <<pc, ctl, kernel>>

Disturbed(d) == d \in Disturbances /\ disturbed' = TRUE

\* The grace period is longer than the pause at the end of an iteration, so it ends in
\* one of these pauses, or anywhere if the controller may be descheduled for so long.
GraceElapses ==
  /\ grace = "running"
  /\ grace' = "over"
  /\ IF pc = "write" THEN UNCHANGED disturbed ELSE Disturbed("stall")
  /\ UNCHANGED <<pc, late, sent, inputClosed, output, outputEof, status, forced, receipt, kernel>>

-----------------------------------------------------------------------------
(* The controller.                                                         *)

Works == UNCHANGED disturbed
Fails == Disturbed("failure")

ReceiptOf(s, reason) == [status |-> s, reason |-> reason]

GroupKilled_LeaderOnly ==
  /\ leader' = IF leader = "running" THEN "killed" ELSE leader
  /\ readers' = readers \ {"leader"}
  /\ writers' = writers \ {"leader"}
  /\ UNCHANGED <<helper, toChild, fromChild, received, written>>

\* SIGKILL to the group: the helper, if it is still in it.
GroupKilled ==
  /\ helper' = IF helper = "grouped" THEN "killed" ELSE helper
  /\ leader' = IF leader = "running" THEN "killed" ELSE leader
  /\ readers' = {p \in readers : p = "helper" /\ helper = "escaped"}
  /\ writers' = {p \in writers : p = "helper" /\ helper = "escaped"}
  /\ UNCHANGED <<toChild, fromChild, received, written>>

SpawnFails ==
  /\ pc = "spawn"
  /\ pc' = "done"
  /\ receipt' = ReceiptOf("Failed", "SpawnFailed")
  /\ UNCHANGED <<sent, inputClosed, output, outputEof, status, grace, late, forced, disturbed, kernel>>

Spawn ==
  /\ pc = "spawn"
  /\ pc' = "setup"
  /\ leader' = "running"
  /\ readers' = {"leader"}
  /\ writers' = {"leader"}
  /\ UNCHANGED <<late, ctl, helper, toChild, fromChild, received, written>>

\* Making the pipes nonblocking.
SetUp ==
  /\ pc = "setup"
  /\ pc' = "write"
  /\ UNCHANGED <<late, ctl, kernel>>

SetUpFails ==
  /\ pc = "setup"
  /\ Fails
  /\ pc' = "done"
  /\ GroupKilled
  /\ status' \in {leader', "none"}
  /\ receipt' = ReceiptOf("Unknown", "ProcessWaitFailed")
  /\ UNCHANGED <<sent, inputClosed, output, outputEof, grace, late, forced>>

\* One nonblocking write of what is left of the request; the pipe takes some of it, none,
\* or, when nobody can read it any more, fails.
WriteRequest ==
  /\ pc = "write"
  /\ pc' = "drain"
  /\ IF inputClosed
     THEN UNCHANGED <<sent, inputClosed, forced, toChild, disturbed>>
     ELSE \/ /\ (readers = {} /\ Works) \/ Fails
             /\ forced' = "RequestWriteFailed"
             /\ UNCHANGED <<sent, inputClosed, toChild>>
          \/ /\ readers # {}
             /\ toChild = PipeSize
             /\ Works
             /\ UNCHANGED <<sent, inputClosed, forced, toChild>>
          \/ /\ readers # {}
             /\ \E n \in 1..(FrameChunks - sent) :
                  /\ toChild + n <= PipeSize
                  /\ toChild' = toChild + n
                  /\ sent' = sent + n
                  /\ inputClosed' = (sent + n = FrameChunks)
             /\ Works
             /\ UNCHANGED forced
  /\ UNCHANGED <<output, outputEof, status, grace, late, receipt,
                 leader, helper, readers, writers, fromChild, received, written>>

ReadOutput_Unlimited ==
  /\ pc = "drain"
  /\ ~outputEof
  /\ fromChild # <<>>
  /\ output' = Kept(output, Head(fromChild))
  /\ fromChild' = Tail(fromChild)
  /\ UNCHANGED <<pc, sent, inputClosed, outputEof, status, grace, late, forced, receipt, disturbed,
                 leader, helper, readers, writers, toChild, received, written>>

\* One nonblocking read; reads go on until the pipe is empty, at its end, or the limit
\* is exceeded.
ReadOutput ==
  /\ pc = "drain"
  /\ ~outputEof
  /\ fromChild # <<>>
  /\ output' = Kept(output, Head(fromChild))
  /\ fromChild' = Tail(fromChild)
  /\ IF Len(output) + 1 > MaxOutput
     THEN forced' = "OutputLimitExceeded" /\ pc' = "wait"
     ELSE UNCHANGED <<forced, pc>>
  /\ UNCHANGED <<sent, inputClosed, outputEof, status, grace, late, receipt, disturbed,
                 leader, helper, readers, writers, toChild, received, written>>

StopReading ==
  /\ pc = "drain"
  /\ pc' = "wait"
  /\ \/ outputEof /\ Works /\ UNCHANGED <<outputEof, forced>>
     \/ /\ ~outputEof /\ fromChild = <<>> /\ Works
        /\ outputEof' = (writers = {})
        /\ UNCHANGED forced
     \/ /\ ~outputEof /\ Fails
        /\ forced' = "OutputReadFailed"
        /\ UNCHANGED outputEof
  /\ UNCHANGED <<sent, inputClosed, output, status, grace, late, receipt, kernel>>

PollChild ==
  /\ pc = "wait"
  /\ pc' = "group"
  /\ \/ /\ status = "none" /\ leader \in Exits /\ Works
        /\ status' = leader
        /\ grace' = "running"
        /\ UNCHANGED forced
     \/ /\ status # "none" \/ leader = "running"
        /\ Works
        /\ UNCHANGED <<status, grace, forced>>
     \/ /\ status = "none" /\ Fails
        /\ forced' = "ProcessWaitFailed"
        /\ UNCHANGED <<status, grace>>
  /\ UNCHANGED <<sent, inputClosed, output, outputEof, late, receipt, kernel>>

CheckGroup_NoGrace ==
  /\ pc = "group"
  /\ IF grace = "off"
     THEN pc' = "clock" /\ UNCHANGED <<forced, kernel>>
     ELSE \/ /\ helper = "grouped"
             /\ GroupKilled
             /\ forced' = "DescendantDetected"
             /\ pc' = "clock"
          \/ /\ helper # "grouped" /\ outputEof
             /\ pc' = "cleanup"
             /\ UNCHANGED <<forced, kernel>>
          \/ /\ helper # "grouped" /\ ~outputEof
             /\ forced' = "OutputReadFailed"
             /\ pc' = "clock"
             /\ UNCHANGED kernel
  /\ UNCHANGED <<sent, inputClosed, output, outputEof, status, grace, late, receipt, disturbed>>

\* The helper is killed, but what is said of it depends on what was read.
CheckGroup_KillUnreported ==
  /\ pc = "group"
  /\ IF grace # "over"
     THEN pc' = "clock" /\ UNCHANGED <<forced, kernel>>
     ELSE /\ GroupKilled
          /\ pc' = IF outputEof THEN "cleanup" ELSE "clock"
          /\ forced' = IF outputEof THEN forced ELSE "DescendantDetected"
  /\ UNCHANGED <<sent, inputClosed, output, outputEof, status, grace, late, receipt, disturbed>>

\* Once the grace period after the leader's exit is over, the group must be empty and
\* the output at its end; then the loop is left without a look at the clock.
CheckGroup ==
  /\ pc = "group"
  /\ IF grace # "over"
     THEN pc' = "clock" /\ Works /\ UNCHANGED <<forced, kernel>>
     ELSE \/ /\ helper = "grouped"
             /\ GroupKilled
             /\ forced' = "DescendantDetected"
             /\ pc' = "clock"
             /\ Works
          \/ /\ helper # "grouped"
             /\ forced' = IF outputEof THEN forced ELSE "OutputReadFailed"
             /\ pc' = IF outputEof THEN "cleanup" ELSE "clock"
             /\ Works
             /\ UNCHANGED kernel
          \/ /\ helper # "grouped"
             /\ forced' = "ProcessWaitFailed"
             /\ pc' = "clock"
             /\ Fails
             /\ UNCHANGED kernel
  /\ UNCHANGED <<sent, inputClosed, output, outputEof, status, grace, late, receipt>>

LookAtClock ==
  /\ pc = "clock"
  /\ forced' = IF late THEN "Timeout" ELSE forced
  /\ pc' = IF forced' = "none" THEN "write" ELSE "cleanup"
  /\ UNCHANGED <<sent, inputClosed, output, outputEof, status, grace, late, receipt, disturbed, kernel>>

\* terminate_process_tree, or only the group if the leader has been reaped already.
CleanUp ==
  /\ pc = "cleanup"
  /\ pc' = "judge"
  /\ GroupKilled
  /\ IF forced # "none" /\ status = "none"
     THEN \/ status' = leader' /\ Works
          \/ status' = "none" /\ Fails
     ELSE status' = status /\ Works
  /\ UNCHANGED <<sent, inputClosed, output, outputEof, grace, late, forced, receipt>>

\* decode_response_frame, validate_bound_response and the status of the response.
Verdict ==
  IF forced # "none" THEN ReceiptOf("Unknown", forced)
  ELSE IF status # "zero" THEN ReceiptOf("Unknown", "ChildExitUnknown")
  ELSE IF output = <<"head", "completed">> THEN ReceiptOf("Completed", "ExecutorCompleted")
  ELSE IF output = <<"head", "failed">> THEN ReceiptOf("Failed", "ExecutorRejected")
  ELSE IF output = <<"head", "foreign">> THEN ReceiptOf("Unknown", "BindingMismatch")
  ELSE ReceiptOf("Unknown", "MalformedResponse")

Judge ==
  /\ pc = "judge"
  /\ pc' = "done"
  /\ receipt' = Verdict
  /\ UNCHANGED <<sent, inputClosed, output, outputEof, status, grace, late, forced, disturbed,
                 kernel>>

Controller ==
  \/ SpawnFails \/ Spawn \/ SetUp \/ SetUpFails
  \/ WriteRequest \/ ReadOutput \/ StopReading \/ PollChild \/ CheckGroup \/ LookAtClock
  \/ CleanUp \/ Judge

HostInit ==
  /\ pc = "spawn" /\ sent = 0 /\ inputClosed = FALSE /\ output = <<>> /\ outputEof = FALSE
  /\ status = "none" /\ grace = "off" /\ late = FALSE /\ forced = "none"
  /\ receipt = NoReceipt /\ disturbed = FALSE
  /\ leader = "none" /\ helper = "none" /\ readers = {} /\ writers = {}
  /\ toChild = 0 /\ fromChild = <<>> /\ received = 0 /\ written = <<>>

HostNext == Controller \/ Processes \/ DeadlinePasses \/ GraceElapses

\* The controller's thread keeps being scheduled and time passes; nothing is assumed of
\* the processes.
Fairness == WF_hostVars(Controller) /\ WF_hostVars(DeadlinePasses)

HostSpec == HostInit /\ [][HostNext]_hostVars /\ Fairness

-----------------------------------------------------------------------------

Issued == receipt # NoReceipt

\* A definite receipt, Completed or Failed/ExecutorRejected, is proven: the leader exited
\* with zero by itself, and all that anybody wrote, to the last chunk, is one well-formed
\* response bound to this request.  A truncated or a continued response, a response of a
\* process that was killed or that failed later, never yields one (lines 205-297).
DefiniteIsProven ==
  receipt.reason \in {"ExecutorCompleted", "ExecutorRejected"} =>
    /\ leader = "zero" /\ status = "zero"
    /\ written = <<"head", IF receipt.status = "Completed" THEN "completed" ELSE "failed">>
    /\ helper # "killed"

\* When a receipt is issued nothing of the attempt runs on in its process group and the
\* leader has been reaped, whatever was decided in whatever order (lines 222-228).  A
\* helper that created a session of its own is out of the controller's reach.
NothingSurvives ==
  Issued =>
    /\ leader # "running"
    /\ helper # "grouped"
    /\ disturbed \/ leader = "none" \/ status = leader

\* The leader read its request, wrote a complete response, started nothing and exited
\* with zero before the deadline.
Succeeded ==
  /\ ~late
  /\ leader = "zero" /\ helper = "none"
  /\ written = <<"head", "completed">> /\ received = FrameChunks

\* A success is reported as such, wherever the leader's last write and its exit fall into
\* the controller's round of write, read, wait and check, unless system calls failed or
\* the controller did not run for a whole grace period (lines 142-220).
CleanRunCompletes ==
  Issued /\ Succeeded /\ ~disturbed => receipt.status = "Completed"

\* Every attempt ends with a receipt: a child that never reads, never stops writing, hangs
\* or leaves its pipes to a helper cannot hold the controller (lines 142-220).
AttemptEnds == <>Issued
=============================================================================
