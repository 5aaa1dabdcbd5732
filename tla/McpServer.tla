------------------------------ MODULE McpServer ------------------------------
(***************************************************************************)
(* The MCP server (services/mcp): it reads requests of an agent line by    *)
(* line from its standard input, answers each before it reads the next,    *)
(* and for xcontext_execute runs a command, waits for the command and for  *)
(* everybody the command gave its output pipe to, and ingests the output   *)
(* through the HTTP client (pkg/client).                                   *)
(*                                                                         *)
(* A line is its kind.  Text is the number of pieces of output it holds.   *)
(* The commands, the processes they leave behind, the API and the agent    *)
(* are the environment: they may do what they can at any time, or never.   *)
(***************************************************************************)
EXTENDS Integers, Sequences

CONSTANTS MaxLines,     \* bound: lines the agent writes
          MaxWrites,    \* bound: pieces of output a command writes
          MaxOutput,    \* maxOutput of the server, in such pieces
          MaxText       \* what fits into a line, in such pieces

ASSUME BoundsAssumption ==
  /\ MaxLines \in Nat /\ MaxWrites \in Nat
  /\ MaxOutput \in Nat /\ MaxText \in Nat

VARIABLES lines,     \* what the agent writes, in order
          read,      \* the number of lines taken
          phase,     \* where Run is with the last line taken
          commands,  \* of each line that started one, its command
          calls,     \* of each line that made one, its call to the API
          replies    \* what is written to the standard output, in order

vars == <<lines, read, phase, commands, calls, replies>>

-----------------------------------------------------------------------------
(* "garbage" is not JSON or has no id, as a notification; "oversized" does *)
(* not fit into the scanner's buffer; "local" needs neither a command nor  *)
(* the API; "query" is retrieve, search or stats.                          *)
Tools    == {"execute", "ingest", "query"}
Requests == Tools \union {"local"}
Kinds    == Requests \union {"garbage", "oversized"}

Put(table, line, row) ==
  [l \in DOMAIN table \union {line} |-> IF l = line THEN row ELSE table[l]]

(* The server is at the line that it took last.                            *)
Command == commands[read]
Call    == calls[read]

Signalled == -1

NewCommand == [child |-> "running", exit |-> 0, expired |-> FALSE,
               held |-> FALSE, wrote |-> 0]

(* Encode writes the answer, or fails and so ends Run: the agent has       *)
(* closed its end.                                                         *)
Reply(line, kind, exit) ==
  \/ /\ replies' = Append(replies, [line |-> line, kind |-> kind, exit |-> exit])
     /\ phase' = "reading"
  \/ /\ phase' = "failed"
     /\ UNCHANGED replies

(* The client posts a text for a line and waits for the answer.            *)
Post(line, text, delivered) ==
  /\ calls' = Put(calls, line,
                  [text |-> text, delivered |-> delivered, state |-> "open"])
  /\ phase' = "calling"
  /\ UNCHANGED replies

-----------------------------------------------------------------------------
(* Run, from one line to the next.                                         *)

Take(kinds) ==
  /\ phase = "reading"
  /\ read < Len(lines)
  /\ lines[read + 1] \in kinds
  /\ read' = read + 1

(* Mutant: a notification gets an answer.                                  *)
SkipWithError ==
  /\ Take({"garbage"})
  /\ Reply(read + 1, "error", 0)
  /\ UNCHANGED <<lines, commands, calls>>

Skip ==
  /\ Take({"garbage"})
  /\ UNCHANGED <<lines, phase, commands, calls, replies>>

Overlong ==
  /\ Take({"oversized"})
  /\ phase' = "failed"
  /\ UNCHANGED <<lines, commands, calls, replies>>

EndOfInput ==
  /\ phase = "reading"
  /\ read = Len(lines)
  /\ phase' = "ended"
  /\ UNCHANGED <<lines, read, commands, calls, replies>>

(* Answers that take neither a command nor the API: also the errors for    *)
(* arguments that do not decode, and for a command that does not start.    *)
AnswerAtOnce ==
  /\ Take(Requests)
  /\ \E kind \in {"result", "error"} :
       /\ kind = "result" => lines[read + 1] = "local"
       /\ Reply(read + 1, kind, 0)
  /\ UNCHANGED <<lines, commands, calls>>

Start ==
  /\ Take({"execute"})
  /\ commands' = Put(commands, read + 1, NewCommand)
  /\ phase' = "command"
  /\ UNCHANGED <<lines, calls, replies>>

(* An ingest has the agent's text, all of what the line held: it may be    *)
(* empty, and more than the server keeps of a command.                     *)
Forward ==
  /\ Take({"ingest", "query"})
  /\ \E text \in 0..MaxText : Post(read + 1, text, FALSE)
  /\ UNCHANGED <<lines, commands>>

-----------------------------------------------------------------------------
(* A command: the child that the server started, and the descendants that  *)
(* hold the output pipe it gave them.                                      *)

Running == phase = "command" /\ Command.child = "running"

Change(command) ==
  /\ commands' = [commands EXCEPT ![read] = command]
  /\ UNCHANGED <<lines, read, phase, calls, replies>>

Write ==
  /\ phase = "command"
  /\ Command.child = "running" \/ Command.held
  /\ Command.wrote < MaxWrites
  /\ Change([Command EXCEPT !.wrote = @ + 1])

Fork ==
  /\ Running
  /\ ~Command.held
  /\ Change([Command EXCEPT !.held = TRUE])

(* The last descendant that held the pipe has closed it.                   *)
LetGo ==
  /\ phase = "command"
  /\ Command.held
  /\ Change([Command EXCEPT !.held = FALSE])

Exit ==
  /\ Running
  /\ \E exit \in {0, 1, Signalled} :
       Change([Command EXCEPT !.child = "zombie", !.exit = exit])

(* Mutant: the command is not bound to the context.                        *)
ExpireUnseen ==
  /\ phase = "command"
  /\ Command.child \in {"running", "zombie"}
  /\ ~Command.expired
  /\ Change([Command EXCEPT !.expired = TRUE])

(* The deadline passes before the child was waited for: exec kills it, and *)
(* it alone.  A child that had just exited keeps its exit code.            *)
Expire ==
  /\ phase = "command"
  /\ Command.child \in {"running", "zombie"}
  /\ ~Command.expired
  /\ Change([Command EXCEPT !.expired = TRUE, !.child = "zombie",
                            !.exit = IF Running THEN Signalled ELSE @])

Reap ==
  /\ phase = "command"
  /\ Command.child = "zombie"
  /\ Change([Command EXCEPT !.child = "reaped"])

(* Mutant: the end of the child counts as the end of its output.           *)
CollectableOnExit == Command.child = "reaped"

(* CombinedOutput reads the pipe to its end, however long that takes.      *)
Collectable == Command.child = "reaped" /\ ~Command.held

(* Mutant: the limit is forgotten.                                         *)
CapturedWhole == Command.wrote

Captured == IF Command.wrote > MaxOutput THEN MaxOutput ELSE Command.wrote

(* An exit code is not an error of execute, but a deadline that met a      *)
(* successful child is.                                                    *)
Collect ==
  /\ phase = "command"
  /\ Collectable
  /\ IF Command.exit = 0 /\ Command.expired
     THEN Reply(read, "error", 0) /\ UNCHANGED calls
     ELSE Post(read, Captured, TRUE)
  /\ UNCHANGED <<lines, read, commands>>

-----------------------------------------------------------------------------
(* A call to the API.  The API goes on when the client has given up.       *)

ApiAnswers(line, state) ==
  /\ calls[line].state = "open"
  /\ state = "done" /\ lines[line] # "query" => calls[line].text > 0
  /\ calls' = [calls EXCEPT ![line].state = state]
  /\ UNCHANGED <<lines, read, phase, commands, replies>>

Receive ==
  /\ phase = "calling"
  /\ \/ /\ Call.state = "done"
        /\ IF lines[read] = "execute"
           THEN Reply(read, "receipt", Command.exit)
           ELSE Reply(read, "result", 0)
     \/ /\ Call.state = "refused"
        /\ Reply(read, "error", 0)
  /\ UNCHANGED <<lines, read, commands, calls>>

(* The timeout of the client, or a connection that breaks.                 *)
GiveUp ==
  /\ phase = "calling"
  /\ Reply(read, "error", 0)
  /\ UNCHANGED <<lines, read, commands, calls>>

(* The agent ends the server with whatever it is doing.                    *)
Die ==
  /\ phase \notin {"ended", "failed"}
  /\ phase' = "failed"
  /\ UNCHANGED <<lines, read, commands, calls, replies>>

-----------------------------------------------------------------------------
Init ==
  /\ lines \in UNION {[1..n -> Kinds] : n \in 0..MaxLines}
  /\ read = 0
  /\ phase = "reading"
  /\ commands = << >>
  /\ calls = << >>
  /\ replies = << >>

(* The one goroutine that runs the server.                                 *)
Run ==
  \/ Skip \/ Overlong \/ AnswerAtOnce \/ Start \/ Forward
  \/ Reap \/ Collect \/ Receive

Api == \E line \in DOMAIN calls : ApiAnswers(line, "done") \/ ApiAnswers(line, "refused")

Finished ==
  /\ phase \in {"ended", "failed"}
  /\ UNCHANGED vars

Next ==
  \/ Run \/ Expire \/ GiveUp
  \/ EndOfInput \/ Die
  \/ Write \/ Fork \/ LetGo \/ Exit
  \/ Api
  \/ Finished

(* The server's goroutine is scheduled and its two timers fire.  Commands, *)
(* descendants, the API and the agent owe nothing.                         *)
Fairness == WF_vars(Run) /\ WF_vars(Expire) /\ WF_vars(GiveUp)

Spec == Init /\ [][Next]_vars /\ Fairness

=============================================================================
