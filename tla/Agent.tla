-------------------------------- MODULE Agent --------------------------------
(***************************************************************************)
(* The agent of one session (claudecli.go): the claude subprocess, the     *)
(* workspace directory it runs in, the pipes to and from it, and the       *)
(* readLoop goroutine that turns its output lines into events.             *)
(*                                                                         *)
(* The subprocess itself is external: it takes the prompts from stdin one  *)
(* at a time, edits files while it works on one, prints lines, ends every  *)
(* turn with a result line, and exits when stdin is closed and it is idle. *)
(* It blocks when the pipe it prints to is full.  "proc" stands for claude *)
(* with the children that keep its stdout or stderr open: it has "exited"  *)
(* when the last of them is gone, because cmd.Wait also waits for the copy *)
(* of stderr into the ring buffer (Start sets cmd.Stderr, not a file).     *)
(***************************************************************************)
EXTENDS FileTree, Sequences

CONSTANTS
    EventCap,           \* capacity of the events channel (64 in the code)
    PipeCap,            \* lines the stdout pipe holds
    MaxChatter,         \* most lines the process prints before a turn's result
    Chatter,            \* the kinds of line it prints before the result
    OversizeLines,      \* may a line be too long for one protocol record?
    AgentMayCrash,      \* may the process die on its own?
    BackgroundWrites    \* may a child of the process write between turns?

LineKinds == {"init", "hook", "assistant", "tool", "user", "result", "other"}

ASSUME AgentAssumption ==
    /\ EventCap \in Nat \ {0}
    /\ PipeCap \in Nat \ {0}
    /\ MaxChatter \in Nat
    /\ Chatter \subseteq LineKinds \ {"result"}
    /\ {OversizeLines, AgentMayCrash, BackgroundWrites} \subseteq BOOLEAN

VARIABLES
    proc,           \* the subprocess: "none", "idle", "busy" (in a turn), "exited"
    stdin,          \* prompts written to its stdin and not yet read
    stdinOpen,      \* our end of its stdin is open
    pipe,           \* lines it printed that readLoop has not delivered
    events,         \* the events channel
    eventsClosed,   \* readLoop has returned and closed the channel
    chatter,        \* lines printed in the current turn
    wsExists,       \* the workspace directory exists
    files           \* the files in it

procVars == <<proc, stdin, stdinOpen, chatter>>
streamVars == <<pipe, events, eventsClosed>>
dirVars == <<wsExists, files>>
agentVars == <<procVars, streamVars, dirVars>>

\* A line is what parseLine looks at, and whether its event fits a record.
Lines == [kind : LineKinds, fits : BOOLEAN]

\* parseLine: the event a line stands for, or "dropped".
ParseLine(line) ==
    CASE line.kind = "init"      -> "init"
      [] line.kind = "assistant" -> "message"
      [] line.kind = "tool"      -> "tool_use"
      [] line.kind = "user"      -> "tool_result"
      [] line.kind = "result"    -> "result"
      [] OTHER                   -> "dropped"

EventKinds == {"init", "message", "tool_use", "tool_result", "result"}
Events == [kind : EventKinds, fits : BOOLEAN]

AgentInit ==
    /\ proc = "none"
    /\ stdin = 0
    /\ stdinOpen = FALSE
    /\ pipe = <<>>
    /\ events = <<>>
    /\ eventsClosed = FALSE
    /\ chatter = 0
    /\ wsExists = FALSE
    /\ files = NoFiles

Running == proc \in {"idle", "busy"}

-----------------------------------------------------------------------------
(* The operations of Runner and session, used by the service's actions. *)

\* Runner.Start, after a successful cmd.Start.
StartProcess ==
    /\ proc' = "idle"
    /\ stdin' = 0
    /\ stdinOpen' = TRUE
    /\ chatter' = 0
    /\ pipe' = <<>>
    /\ events' = <<>>
    /\ eventsClosed' = FALSE

\* session.Send: a write to a closed stdin, or to one nobody reads, fails.
CanSend == stdinOpen /\ Running

SendPrompt ==
    /\ CanSend
    /\ stdin' = stdin + 1
    /\ UNCHANGED <<proc, stdinOpen, chatter>>

\* session.Close, first half.
CloseStdin ==
    /\ stdinOpen' = FALSE
    /\ UNCHANGED <<proc, stdin, chatter>>

\* session.Close, second half: cmd.Wait returns once the process has exited and
\* its stderr is at its end, and closes our end of the pipe; readLoop keeps only
\* what it had already read.
WaitReturns ==
    /\ proc = "exited"
    /\ \E n \in 0..Len(pipe) : pipe' = SubSeq(pipe, 1, n)
    /\ UNCHANGED <<events, eventsClosed>>

-----------------------------------------------------------------------------
(* The subprocess. *)

ClaudeBegins ==
    /\ proc = "idle"
    /\ stdin > 0
    /\ stdin' = stdin - 1
    /\ proc' = "busy"
    /\ chatter' = 0
    /\ UNCHANGED <<stdinOpen, streamVars, dirVars>>

\* Create, modify or delete one file.
EditOne ==
    \E p \in Paths :
        /\ \/ \E f \in FileEntry : files' = Put(files, p, f)
           \/ /\ p \in DOMAIN files
              /\ files' = Restrict(files, DOMAIN files \ {p})
        /\ Consistent(DOMAIN files')

ClaudeEdits ==
    /\ proc = "busy"
    /\ EditOne
    /\ UNCHANGED <<procVars, streamVars, wsExists>>

BackgroundEdits ==
    /\ BackgroundWrites
    /\ proc = "idle"
    /\ EditOne
    /\ UNCHANGED <<procVars, streamVars, wsExists>>

\* Fitting lines unless OversizeLines.
Printed(kind) == {[kind |-> kind, fits |-> b] : b \in {TRUE} \cup {~OversizeLines}}

ClaudePrints ==
    /\ proc = "busy"
    /\ chatter < MaxChatter
    /\ Len(pipe) < PipeCap
    /\ \E k \in Chatter : \E line \in Printed(k) : pipe' = Append(pipe, line)
    /\ chatter' = chatter + 1
    /\ UNCHANGED <<proc, stdin, stdinOpen, events, eventsClosed, dirVars>>

ClaudeEndsTurn ==
    /\ proc = "busy"
    /\ Len(pipe) < PipeCap
    /\ \E line \in Printed("result") : pipe' = Append(pipe, line)
    /\ proc' = "idle"
    /\ UNCHANGED <<stdin, stdinOpen, chatter, events, eventsClosed, dirVars>>

ClaudeExits ==
    /\ proc = "idle"
    /\ stdin = 0
    /\ ~stdinOpen
    /\ proc' = "exited"
    /\ UNCHANGED <<stdin, stdinOpen, chatter, streamVars, dirVars>>

ClaudeCrashes ==
    /\ AgentMayCrash
    /\ Running
    /\ proc' = "exited"
    /\ UNCHANGED <<stdin, stdinOpen, chatter, streamVars, dirVars>>

-----------------------------------------------------------------------------
(* readLoop *)

ReadLineOverflows ==    \* mutant: delivering an event does not wait for room
    /\ pipe # <<>>
    /\ events' = IF ParseLine(Head(pipe)) = "dropped" THEN events
                 ELSE Append(events, [kind |-> ParseLine(Head(pipe)), fits |-> Head(pipe).fits])
    /\ pipe' = Tail(pipe)
    /\ UNCHANGED <<eventsClosed, procVars, dirVars>>

ReadLineDrops ==        \* mutant: an event that finds the channel full is dropped
    /\ pipe # <<>>
    /\ events' = IF ParseLine(Head(pipe)) # "dropped" /\ Len(events) < EventCap
                 THEN Append(events, [kind |-> ParseLine(Head(pipe)), fits |-> Head(pipe).fits])
                 ELSE events
    /\ pipe' = Tail(pipe)
    /\ UNCHANGED <<eventsClosed, procVars, dirVars>>

ReadLine ==
    /\ pipe # <<>>
    /\ \/ /\ ParseLine(Head(pipe)) # "dropped"
          /\ Len(events) < EventCap
          /\ events' = Append(events, [kind |-> ParseLine(Head(pipe)), fits |-> Head(pipe).fits])
       \/ /\ ParseLine(Head(pipe)) = "dropped"
          /\ UNCHANGED events
    /\ pipe' = Tail(pipe)
    /\ UNCHANGED <<eventsClosed, procVars, dirVars>>

ReadEOF ==
    /\ proc = "exited"
    /\ pipe = <<>>
    /\ ~eventsClosed
    /\ eventsClosed' = TRUE
    /\ UNCHANGED <<pipe, events, procVars, dirVars>>

ClaudeStep ==
    \/ ClaudeBegins \/ ClaudeEdits \/ BackgroundEdits \/ ClaudePrints
    \/ ClaudeEndsTurn \/ ClaudeExits \/ ClaudeCrashes

ReadLoopStep == ReadLine \/ ReadEOF

AgentTypeOK ==
    /\ proc \in {"none", "idle", "busy", "exited"}
    /\ stdin \in Nat
    /\ stdinOpen \in BOOLEAN
    /\ pipe \in Seq(Lines)
    /\ Len(pipe) <= PipeCap
    /\ events \in Seq(Events)
    /\ Len(events) <= EventCap
    /\ eventsClosed \in BOOLEAN
    /\ chatter \in 0..MaxChatter
    /\ wsExists \in BOOLEAN
    /\ files \in Trees
=============================================================================
