------------------------- MODULE McpServerProperties -------------------------
(***************************************************************************)
(* What the MCP server owes the agent that started it, and the changes of  *)
(* its code that would break it.                                           *)
(***************************************************************************)
EXTENDS McpServer

CommandType ==
  [child : {"running", "zombie", "reaped"}, exit : {0, 1, Signalled},
   expired : BOOLEAN, held : BOOLEAN, wrote : 0..MaxWrites]

CallType ==
  [text : Nat, delivered : BOOLEAN, state : {"open", "done", "refused"}]

ReplyType ==
  [line : Nat, kind : {"result", "receipt", "error"}, exit : {0, 1, Signalled}]

(* Types: a command or a call is made for a line that takes one and that   *)
(* has been read.  A call for a command has no more text than the server   *)
(* keeps (server.go:30, 121-123); the text of an ingest is bounded by the  *)
(* scanner's buffer only, which holds more (server.go:47, 147-152).        *)
McpTypeOK ==
  /\ lines \in Seq(Kinds) /\ Len(lines) <= MaxLines
  /\ read \in 0..Len(lines)
  /\ phase \in {"reading", "command", "calling", "ended", "failed"}
  /\ commands \in [DOMAIN commands -> CommandType]
  /\ DOMAIN commands \subseteq {line \in 1..read : lines[line] = "execute"}
  /\ calls \in [DOMAIN calls -> CallType]
  /\ DOMAIN calls \subseteq {line \in 1..read : lines[line] \in Tools}
  /\ \A line \in DOMAIN calls :
       calls[line].text <= IF lines[line] = "execute" THEN MaxOutput ELSE MaxText
  /\ replies \in Seq(ReplyType)

Asked(n) == {line \in 1..n : lines[line] \in Requests}

Answered == {replies[n].line : n \in DOMAIN replies}

(* Every request is answered once and in the order of the requests, and    *)
(* nothing else is answered, whatever became of its command and its call:  *)
(* an answer of the API that comes late is nobody's (server.go:46-64).     *)
RepliesInOrder ==
  /\ \A m, n \in DOMAIN replies : m < n => replies[m].line < replies[n].line
  /\ phase \in {"reading", "ended"}   => Answered = Asked(read)
  /\ phase \in {"command", "calling"} => Answered = Asked(read - 1)
  /\ phase = "failed" => Answered \in {Asked(read), Asked(read - 1)}

(* A receipt is about a command that has ended, with nobody left who could *)
(* write more: its exit code is the command's and what the API stored is   *)
(* all that was written, up to the server's limit.  A child that was       *)
(* killed at the deadline never counts as a success (server.go:119-146).   *)
ReceiptsAreTrue ==
  \A n \in DOMAIN replies :
    replies[n].kind = "receipt" =>
      LET line    == replies[n].line
          command == commands[line]
      IN  /\ command.child = "reaped" /\ ~command.held
          /\ replies[n].exit = command.exit
          /\ command.expired => replies[n].exit # 0
          /\ calls[line].state = "done"
          /\ calls[line].text = IF command.wrote < MaxOutput
                                THEN command.wrote ELSE MaxOutput

Held == phase = "command" /\ Command.held

(* Every request is answered, unless the server fails: a command that      *)
(* never ends is killed and an API that never answers is given up.  Only a *)
(* descendant that keeps the output pipe for ever keeps the server waiting *)
(* (server.go:117-120, client.go:20).                                      *)
EveryRequestAnswered ==
  \/ <>[]Held
  \/ \A line \in 1..MaxLines :
       (line <= Len(lines) /\ lines[line] \in Requests)
         ~> (phase = "failed" \/ \E n \in DOMAIN replies : replies[n].line = line)

(* architecture.md:5: delivered savings are claimed only when the          *)
(* compressed content replaced the output in the model's context.  The     *)
(* server attests delivery before it has delivered (server.go:142).        *)
DeliveredReachesAgent ==
  \A line \in DOMAIN calls :
    calls[line].delivered /\ calls[line].state = "done" =>
      \/ line = read /\ phase = "calling"
      \/ \E n \in DOMAIN replies :
           replies[n].line = line /\ replies[n].kind = "receipt"

=============================================================================
