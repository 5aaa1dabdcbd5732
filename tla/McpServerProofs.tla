--------------------------- MODULE McpServerProofs ---------------------------
(***************************************************************************)
(* For every length of the input, every amount of output and every limit:  *)
(* the MCP server keeps its types and its receipts are true.               *)
(*                                                                         *)
(* A receipt is made of a call that was made of a command that had ended.  *)
(* So the invariant says it of every call already: from Collect on nobody  *)
(* can change the command, for only the command of the last line changes,  *)
(* and only before there is a call for it.                                 *)
(***************************************************************************)
EXTENDS McpServerProperties, TLAPS

(* Where Run waits, there is something to wait for.                        *)
WaitsForSomething ==
  /\ phase = "command" => read \in DOMAIN commands /\ read \notin DOMAIN calls
  /\ phase = "calling" => read \in DOMAIN calls

Settled(command) ==
  /\ command.child = "reaped" /\ ~command.held
  /\ command.expired => command.exit # 0

(* What the server sends of a command is final.                            *)
CallsAreFinal ==
  \A line \in DOMAIN calls :
    lines[line] = "execute" =>
      /\ line \in DOMAIN commands
      /\ Settled(commands[line])
      /\ calls[line].text = IF commands[line].wrote < MaxOutput
                            THEN commands[line].wrote ELSE MaxOutput

(* A receipt gives the exit code of a command whose call is done.          *)
ReceiptsHaveCalls ==
  \A n \in DOMAIN replies :
    replies[n].kind = "receipt" =>
      LET line == replies[n].line
      IN  /\ line \in DOMAIN calls
          /\ lines[line] = "execute"
          /\ calls[line].state = "done"
          /\ replies[n].exit = commands[line].exit

McpInvariant ==
  McpTypeOK /\ WaitsForSomething /\ CallsAreFinal /\ ReceiptsHaveCalls

-----------------------------------------------------------------------------
LEMMA InvariantGivesReceipts == McpInvariant => ReceiptsAreTrue
  BY DEF McpInvariant, ReceiptsHaveCalls, CallsAreFinal, Settled, ReceiptsAreTrue

LEMMA InitInvariant == Init => McpInvariant
<1> SUFFICES ASSUME Init PROVE McpInvariant
  OBVIOUS
<1>1. lines \in Seq(Kinds) /\ Len(lines) <= MaxLines
  BY BoundsAssumption DEF Init
<1> QED
  BY <1>1 DEF Init, McpInvariant, McpTypeOK, WaitsForSomething, CallsAreFinal,
    ReceiptsHaveCalls

(* Answering without a receipt, whatever else the step does not change.    *)
LEMMA PlainReply ==
  ASSUME McpInvariant, NEW line \in Nat, NEW kind \in {"result", "error"},
         Reply(line, kind, 0), UNCHANGED <<lines, commands, calls>>,
         read' \in read..Len(lines)
  PROVE  McpInvariant'
<1> DEFINE reply == [line |-> line, kind |-> kind, exit |-> 0]
<1>1. reply \in ReplyType /\ reply.kind # "receipt"
  BY DEF ReplyType
<1>2. replies \in Seq(ReplyType)
  BY DEF McpInvariant, McpTypeOK
<1>3. \/ replies' = Append(replies, reply) /\ phase' = "reading"
      \/ replies' = replies /\ phase' = "failed"
  BY DEF Reply
<1> HIDE DEF reply
<1>4. replies' \in Seq(ReplyType)
  BY <1>1, <1>2, <1>3
<1>5. McpTypeOK'
  BY <1>3, <1>4 DEF McpInvariant, McpTypeOK
<1>6. ASSUME NEW n \in DOMAIN replies', replies'[n].kind = "receipt"
      PROVE  n \in DOMAIN replies /\ replies'[n] = replies[n]
  BY <1>1, <1>2, <1>3, <1>6
<1>7. ReceiptsHaveCalls'
  BY <1>6 DEF ReceiptsHaveCalls, McpInvariant
<1> QED
  BY <1>3, <1>5, <1>7 DEF McpInvariant, WaitsForSomething, CallsAreFinal

(* A step of the child or its descendants.                                 *)
LEMMA CommandStep ==
  ASSUME McpInvariant, phase = "command", NEW command \in CommandType, Change(command)
  PROVE  McpInvariant'
<1>1. McpTypeOK' /\ DOMAIN commands' = DOMAIN commands
  BY DEF McpInvariant, McpTypeOK, Change
<1>2. \A line \in DOMAIN calls : line # read /\ commands'[line] = commands[line]
  BY DEF McpInvariant, McpTypeOK, WaitsForSomething, Change
<1> QED
  BY <1>1, <1>2 DEF McpInvariant, WaitsForSomething, CallsAreFinal, ReceiptsHaveCalls, Change

(* Posting the text of a line that has no call yet.                        *)
LEMMA PostStep ==
  ASSUME McpInvariant, NEW line \in 1..Len(lines), NEW text \in Nat,
         text <= IF lines[line] = "execute" THEN MaxOutput ELSE MaxText,
         NEW delivered \in BOOLEAN, Post(line, text, delivered),
         UNCHANGED <<lines, commands>>, read' = line, line >= read,
         lines[line] \in Tools, line \notin DOMAIN calls,
         lines[line] = "execute" =>
           /\ line \in DOMAIN commands
           /\ Settled(commands[line])
           /\ text = IF commands[line].wrote < MaxOutput
                     THEN commands[line].wrote ELSE MaxOutput
  PROVE  McpInvariant'
<1> DEFINE call == [text |-> text, delivered |-> delivered, state |-> "open"]
<1>1. call \in CallType /\ call.text = text
  BY DEF CallType
<1>2. calls' = Put(calls, line, call) /\ phase' = "calling" /\ replies' = replies
  BY DEF Post
<1>3. /\ calls' \in [DOMAIN calls \union {line} -> CallType]
      /\ DOMAIN calls' = DOMAIN calls \union {line}
      /\ calls'[line] = call
      /\ \A l \in DOMAIN calls : l # line /\ calls'[l] = calls[l]
  <2>1. calls \in [DOMAIN calls -> CallType]
    BY DEF McpInvariant, McpTypeOK
  <2>2. \A l \in DOMAIN calls : l # line
    OBVIOUS
  <2> HIDE DEF call
  <2> QED
    BY <1>1, <1>2, <2>1, <2>2 DEF Put
<1>4. McpTypeOK'
  <2>1. line \in Nat /\ read' = line /\ read \in Nat /\ read <= line
    BY DEF McpInvariant, McpTypeOK
  <2>2. DOMAIN calls' \subseteq {l \in 1..read' : lines'[l] \in Tools}
    BY <1>3, <2>1 DEF McpInvariant, McpTypeOK
  <2>3. DOMAIN commands \subseteq {l \in 1..read' : lines'[l] = "execute"}
    BY <2>1 DEF McpInvariant, McpTypeOK
  <2>4. calls' \in [DOMAIN calls' -> CallType]
    BY <1>3
  <2>5. ASSUME NEW l \in DOMAIN calls'
        PROVE  calls'[l].text <= IF lines'[l] = "execute" THEN MaxOutput ELSE MaxText
    BY <1>1, <1>3 DEF McpInvariant, McpTypeOK
  <2> QED
    BY <1>2, <2>1, <2>2, <2>3, <2>4, <2>5 DEF McpInvariant, McpTypeOK
<1>5. WaitsForSomething'
  BY <1>2, <1>3 DEF WaitsForSomething
<1>6. CallsAreFinal'
  BY <1>1, <1>3 DEF McpInvariant, CallsAreFinal
<1>7. ReceiptsHaveCalls'
  BY <1>2, <1>3 DEF McpInvariant, ReceiptsHaveCalls
<1> QED
  BY <1>4, <1>5, <1>6, <1>7 DEF McpInvariant

(* The lines that the server takes.                                        *)
LEMMA TakeStep ==
  ASSUME McpInvariant, NEW kinds \in SUBSET Kinds, Take(kinds)
  PROVE  /\ read + 1 \in 1..Len(lines) /\ read' = read + 1
         /\ lines[read + 1] \in kinds
         /\ read + 1 \notin DOMAIN calls /\ read + 1 \notin DOMAIN commands
  BY DEF McpInvariant, McpTypeOK, Take

LEMMA RunStep == McpInvariant /\ Run => McpInvariant'
<1> SUFFICES ASSUME McpInvariant, Run PROVE McpInvariant'
  OBVIOUS
<1>1. CASE Skip
  <2>1. read + 1 \in 1..Len(lines) /\ read' = read + 1
    BY <1>1, TakeStep DEF Skip, Kinds
  <2> QED
    BY <1>1, <2>1 DEF Skip, McpInvariant, McpTypeOK, WaitsForSomething,
      CallsAreFinal, ReceiptsHaveCalls, Take
<1>2. CASE Overlong
  <2>1. read + 1 \in 1..Len(lines) /\ read' = read + 1
    BY <1>2, TakeStep DEF Overlong, Kinds
  <2> QED
    BY <1>2, <2>1 DEF Overlong, McpInvariant, McpTypeOK, WaitsForSomething,
      CallsAreFinal, ReceiptsHaveCalls, Take
<1>3. CASE AnswerAtOnce
  <2>1. read + 1 \in 1..Len(lines) /\ read' = read + 1
    BY <1>3, TakeStep DEF AnswerAtOnce, Kinds
  <2>2. PICK kind \in {"result", "error"} : Reply(read + 1, kind, 0)
    BY <1>3 DEF AnswerAtOnce
  <2>3. read + 1 \in Nat /\ read' \in read..Len(lines)
    BY <2>1 DEF McpInvariant, McpTypeOK
  <2> QED
    BY <1>3, <2>2, <2>3, PlainReply DEF AnswerAtOnce
<1>4. CASE Start
  <2>1. /\ read + 1 \in 1..Len(lines) /\ read' = read + 1
        /\ lines[read + 1] = "execute"
        /\ read + 1 \notin DOMAIN calls /\ read + 1 \notin DOMAIN commands
    BY <1>4, TakeStep DEF Start, Kinds, Requests, Tools
  <2>2. NewCommand \in CommandType
    BY BoundsAssumption DEF NewCommand, CommandType
  <2>3. commands \in [DOMAIN commands -> CommandType] /\ read \in Nat
    BY DEF McpInvariant, McpTypeOK
  <2>4. /\ commands' \in [DOMAIN commands \union {read + 1} -> CommandType]
        /\ DOMAIN commands' = DOMAIN commands \union {read + 1}
        /\ \A l \in DOMAIN commands : l # read + 1 /\ commands'[l] = commands[l]
    <3>1. commands' = Put(commands, read + 1, NewCommand)
      BY <1>4 DEF Start
    <3> QED
      BY <2>1, <2>2, <2>3, <3>1 DEF Put
  <2>5. McpTypeOK'
    BY <1>4, <2>1, <2>3, <2>4 DEF McpInvariant, McpTypeOK, Start
  <2>6. WaitsForSomething'
    BY <1>4, <2>1, <2>4 DEF Start, WaitsForSomething
  <2>7. CallsAreFinal'
    BY <1>4, <2>4 DEF Start, CallsAreFinal, McpInvariant
  <2>8. ReceiptsHaveCalls'
    BY <1>4, <2>4 DEF Start, ReceiptsHaveCalls, CallsAreFinal, McpInvariant
  <2> QED
    BY <2>5, <2>6, <2>7, <2>8 DEF McpInvariant
<1>5. CASE Forward
  <2>1. /\ read + 1 \in 1..Len(lines) /\ read' = read + 1
        /\ lines[read + 1] \in {"ingest", "query"}
        /\ read + 1 \notin DOMAIN calls
    BY <1>5, TakeStep DEF Forward, Kinds, Requests, Tools
  <2>2. PICK text \in 0..MaxText : Post(read + 1, text, FALSE)
    BY <1>5 DEF Forward
  <2>3. read + 1 >= read
    BY DEF McpInvariant, McpTypeOK
  <2>4. /\ text \in Nat /\ lines[read + 1] \in Tools /\ lines[read + 1] # "execute"
        /\ text <= IF lines[read + 1] = "execute" THEN MaxOutput ELSE MaxText
    BY <2>1, BoundsAssumption DEF Tools
  <2>5. UNCHANGED <<lines, commands>>
    BY <1>5 DEF Forward
  <2> QED
    BY <2>1, <2>2, <2>3, <2>4, <2>5, PostStep
<1>6. CASE Reap
  <2>1. phase = "command" /\ read \in DOMAIN commands /\ Command \in CommandType
    BY <1>6 DEF Reap, McpInvariant, McpTypeOK, WaitsForSomething, Command
  <2>2. [Command EXCEPT !.child = "reaped"] \in CommandType
    BY <2>1 DEF CommandType
  <2> QED
    BY <1>6, <2>1, <2>2, CommandStep DEF Reap
<1>7. CASE Collect
  <2>1. /\ phase = "command" /\ read \in DOMAIN commands /\ read \notin DOMAIN calls
        /\ Command \in CommandType /\ lines[read] = "execute" /\ read \in 1..Len(lines)
    BY <1>7 DEF Collect, McpInvariant, McpTypeOK, WaitsForSomething, Command
  <2>2. UNCHANGED <<lines, read, commands>>
    BY <1>7 DEF Collect
  <2>3. CASE Command.exit = 0 /\ Command.expired
    <3>1. read \in Nat /\ read' \in read..Len(lines)
      BY <2>1, <2>2
    <3>2. Reply(read, "error", 0) /\ UNCHANGED calls
      BY <1>7, <2>3 DEF Collect
    <3> QED
      BY <2>2, <3>1, <3>2, PlainReply
  <2>4. CASE ~(Command.exit = 0 /\ Command.expired)
    <3>1. Post(read, Captured, TRUE)
      BY <1>7, <2>4 DEF Collect
    <3>2. Captured \in Nat /\ Captured <= MaxOutput
      BY <2>1, BoundsAssumption DEF Captured, CommandType
    <3>3. Captured = IF commands[read].wrote < MaxOutput
                     THEN commands[read].wrote ELSE MaxOutput
      BY <2>1, BoundsAssumption DEF Captured, CommandType, Command
    <3>4. Settled(commands[read])
      BY <1>7, <2>1, <2>4 DEF Settled, Collect, Collectable, Command
    <3>5. read >= read /\ read' = read /\ lines[read] \in Tools
      BY <2>1, <2>2 DEF Tools
    <3> QED
      BY <2>1, <2>2, <3>1, <3>2, <3>3, <3>4, <3>5, PostStep
  <2> QED
    BY <2>3, <2>4
<1>8. CASE Receive
  <2>1. /\ phase = "calling" /\ read \in DOMAIN calls /\ read \in Nat
        /\ UNCHANGED <<lines, read, commands, calls>>
        /\ read' \in read..Len(lines)
    BY <1>8 DEF Receive, McpInvariant, McpTypeOK, WaitsForSomething
  <2>2. CASE \E kind \in {"result", "error"} : Reply(read, kind, 0)
    BY <2>1, <2>2, PlainReply
  <2>3. CASE /\ Call.state = "done" /\ lines[read] = "execute"
             /\ Reply(read, "receipt", Command.exit)
    <3> DEFINE reply == [line |-> read, kind |-> "receipt", exit |-> Command.exit]
    <3>1. read \in DOMAIN commands /\ Command \in CommandType
      BY <2>1, <2>3 DEF McpInvariant, McpTypeOK, CallsAreFinal, Command
    <3>2. reply \in ReplyType
      BY <2>1, <3>1 DEF ReplyType, CommandType
    <3>3. \/ replies' = Append(replies, reply) /\ phase' = "reading"
          \/ replies' = replies /\ phase' = "failed"
      BY <2>3 DEF Reply
    <3>4. McpTypeOK'
      <4>1. replies' \in Seq(ReplyType)
        <5>1. replies \in Seq(ReplyType)
          BY DEF McpInvariant, McpTypeOK
        <5> HIDE DEF reply
        <5> QED
          BY <3>2, <3>3, <5>1
      <4> QED
        BY <2>1, <3>3, <4>1 DEF McpInvariant, McpTypeOK
    <3>5. ReceiptsHaveCalls'
      <4> SUFFICES ASSUME NEW n \in DOMAIN replies', replies'[n].kind = "receipt",
                          ~(n \in DOMAIN replies /\ replies'[n] = replies[n])
                   PROVE  replies'[n] = reply
        BY <2>1, <2>3 DEF ReceiptsHaveCalls, McpInvariant, Call, Command
      <4>1. replies \in Seq(ReplyType)
        BY DEF McpInvariant, McpTypeOK
      <4> HIDE DEF reply
      <4> QED
        BY <3>2, <3>3, <4>1
    <3> QED
      BY <2>1, <3>3, <3>4, <3>5 DEF McpInvariant, WaitsForSomething, CallsAreFinal
  <2> QED
    BY <1>8, <2>2, <2>3 DEF Receive
<1> QED
  BY <1>1, <1>2, <1>3, <1>4, <1>5, <1>6, <1>7, <1>8 DEF Run

LEMMA ExpireStep == McpInvariant /\ Expire => McpInvariant'
<1> SUFFICES ASSUME McpInvariant, Expire PROVE McpInvariant'
  OBVIOUS
<1> DEFINE command == [Command EXCEPT !.expired = TRUE, !.child = "zombie",
                                     !.exit = IF Running THEN Signalled ELSE @]
<1>1. phase = "command" /\ Command \in CommandType
  BY DEF Expire, McpInvariant, McpTypeOK, WaitsForSomething, Command
<1>2. command \in CommandType
  BY <1>1 DEF CommandType
<1> QED
  BY <1>1, <1>2, CommandStep DEF Expire

(* The child and its descendants.                                          *)
LEMMA ProcessStep == McpInvariant /\ (Write \/ Fork \/ LetGo \/ Exit) => McpInvariant'
<1> SUFFICES ASSUME McpInvariant, Write \/ Fork \/ LetGo \/ Exit PROVE McpInvariant'
  OBVIOUS
<1>1. phase = "command" /\ Command \in CommandType
  BY DEF Write, Fork, LetGo, Exit, Running, McpInvariant, McpTypeOK, WaitsForSomething, Command
<1>2. CASE Write
  <2>1. [Command EXCEPT !.wrote = @ + 1] \in CommandType
    BY <1>1, <1>2, BoundsAssumption DEF Write, CommandType
  <2> QED
    BY <1>1, <1>2, <2>1, CommandStep DEF Write
<1>3. CASE Fork
  <2>1. [Command EXCEPT !.held = TRUE] \in CommandType
    BY <1>1 DEF CommandType
  <2> QED
    BY <1>1, <1>3, <2>1, CommandStep DEF Fork
<1>4. CASE LetGo
  <2>1. [Command EXCEPT !.held = FALSE] \in CommandType
    BY <1>1 DEF CommandType
  <2> QED
    BY <1>1, <1>4, <2>1, CommandStep DEF LetGo
<1>5. CASE Exit
  <2>1. PICK exit \in {0, 1, Signalled} :
          Change([Command EXCEPT !.child = "zombie", !.exit = exit])
    BY <1>5 DEF Exit
  <2>2. [Command EXCEPT !.child = "zombie", !.exit = exit] \in CommandType
    BY <1>1 DEF CommandType
  <2> QED
    BY <1>1, <2>1, <2>2, CommandStep
<1> QED
  BY <1>2, <1>3, <1>4, <1>5

LEMMA ApiStep == McpInvariant /\ Api => McpInvariant'
<1> SUFFICES ASSUME McpInvariant, NEW line \in DOMAIN calls, NEW state \in {"done", "refused"},
                    ApiAnswers(line, state)
             PROVE  McpInvariant'
  BY DEF Api
<1> DEFINE call == [calls[line] EXCEPT !.state = state]
<1>1. calls[line] \in CallType /\ calls[line].state = "open"
  BY DEF ApiAnswers, McpInvariant, McpTypeOK
<1>2. call \in CallType /\ call.text = calls[line].text
  BY <1>1 DEF CallType
<1>3. /\ calls' = [calls EXCEPT ![line] = call]
      /\ UNCHANGED <<lines, read, phase, commands, replies>>
  BY DEF ApiAnswers
<1>4. /\ calls' \in [DOMAIN calls -> CallType] /\ DOMAIN calls' = DOMAIN calls
      /\ calls'[line] = call
      /\ \A l \in DOMAIN calls : l # line => calls'[l] = calls[l]
  BY <1>2, <1>3 DEF McpInvariant, McpTypeOK
<1>5. McpTypeOK'
  BY <1>3, <1>4 DEF McpInvariant, McpTypeOK
<1>6. WaitsForSomething'
  BY <1>3, <1>4 DEF McpInvariant, WaitsForSomething
<1>7. CallsAreFinal'
  BY <1>2, <1>3, <1>4 DEF McpInvariant, CallsAreFinal
<1>8. ReceiptsHaveCalls'
  BY <1>1, <1>3, <1>4 DEF McpInvariant, ReceiptsHaveCalls
<1> QED
  BY <1>5, <1>6, <1>7, <1>8 DEF McpInvariant

LEMMA McpStep == McpInvariant /\ [Next]_vars => McpInvariant'
<1> SUFFICES ASSUME McpInvariant, [Next]_vars PROVE McpInvariant'
  OBVIOUS
<1>1. CASE GiveUp
  <2>1. read \in Nat /\ read' \in read..Len(lines) /\ UNCHANGED <<lines, commands, calls>>
    BY <1>1 DEF GiveUp, McpInvariant, McpTypeOK
  <2> QED
    BY <1>1, <2>1, PlainReply DEF GiveUp
<1>2. CASE EndOfInput \/ Die
  BY <1>2 DEF EndOfInput, Die, McpInvariant, McpTypeOK, WaitsForSomething,
    CallsAreFinal, ReceiptsHaveCalls
<1>3. CASE Finished \/ UNCHANGED vars
  BY <1>3 DEF Finished, vars, McpInvariant, McpTypeOK, WaitsForSomething,
    CallsAreFinal, ReceiptsHaveCalls
<1> QED
  BY <1>1, <1>2, <1>3, RunStep, ExpireStep, ProcessStep, ApiStep DEF Next

-----------------------------------------------------------------------------
LEMMA AlwaysMcpInvariant == Spec => []McpInvariant
  BY InitInvariant, McpStep, PTL DEF Spec

(* Types, for every number of lines and every limit (server.go:30,         *)
(* 121-123).                                                               *)
THEOREM McpTypeCorrect == Spec => []McpTypeOK
<1>1. McpInvariant => McpTypeOK
  BY DEF McpInvariant
<1> QED
  BY <1>1, AlwaysMcpInvariant, PTL

(* No receipt lies, whatever the command, its descendants, the API and the *)
(* agent do, and however much is written (server.go:119-146).              *)
THEOREM ReceiptsAlwaysTrue == Spec => []ReceiptsAreTrue
  BY InvariantGivesReceipts, AlwaysMcpInvariant, PTL

-----------------------------------------------------------------------------
(* Replies come in the order of the requests.                              *)

(* The line that Run is at is one that it answers.                         *)
LEMMA AtRequest ==
  ASSUME McpInvariant, phase \in {"command", "calling"}
  PROVE  read \in 1..Len(lines) /\ lines[read] \in Requests
  BY DEF McpInvariant, McpTypeOK, WaitsForSomething, Requests, Tools

(* Answering the first line that has no answer yet, or failing to.         *)
LEMMA AnsweringKeepsOrder ==
  ASSUME McpInvariant, NEW line \in 1..Len(lines), lines[line] \in Requests,
         \A m, n \in DOMAIN replies : m < n => replies[m].line < replies[n].line,
         Answered = Asked(line - 1),
         NEW kind, NEW exit, Reply(line, kind, exit),
         UNCHANGED lines, read' = line
  PROVE  RepliesInOrder'
<1> DEFINE reply == [line |-> line, kind |-> kind, exit |-> exit]
<1>0. lines \in Seq(Kinds) /\ replies \in Seq(ReplyType) /\ line \in Nat
  BY DEF McpInvariant, McpTypeOK
<1>1. \A n \in DOMAIN replies : replies[n].line \in 1..(line - 1)
  BY DEF Answered, Asked
<1>2. \A n : Asked(n)' = Asked(n)
  BY DEF Asked
<1>3. CASE replies' = replies /\ phase' = "failed"
  BY <1>2, <1>3 DEF RepliesInOrder, Answered
<1>4. CASE replies' = Append(replies, reply) /\ phase' = "reading"
  <2>1. /\ DOMAIN replies' = 1..(Len(replies) + 1) /\ DOMAIN replies = 1..Len(replies)
        /\ Len(replies) \in Nat
        /\ \A n \in DOMAIN replies : replies'[n].line = replies[n].line
        /\ replies'[Len(replies) + 1].line = line
    <3>1. reply.line = line
      OBVIOUS
    <3> HIDE DEF reply
    <3> QED
      BY <1>0, <1>4, <3>1
  <2>2. \A m, n \in DOMAIN replies' : m < n => replies'[m].line < replies'[n].line
    BY <1>0, <1>1, <2>1
  <2>3. Answered' = Answered \union {line}
    BY <2>1 DEF Answered
  <2>4. Asked(line) = Asked(line - 1) \union {line}
    BY <1>0 DEF Asked
  <2> QED
    BY <1>2, <1>4, <2>2, <2>3, <2>4 DEF RepliesInOrder
<1> QED
  BY <1>3, <1>4 DEF Reply

(* Steps that answer nothing and take no request.                          *)
LEMMA SilenceKeepsOrder ==
  ASSUME RepliesInOrder, UNCHANGED <<lines, read, replies>>,
         \/ phase' = phase
         \/ phase \in {"command", "calling"} /\ phase' \in {"command", "calling", "failed"}
         \/ phase = "reading" /\ phase' \in {"ended", "failed"}
  PROVE  RepliesInOrder'
<1>1. Answered' = Answered /\ \A n : Asked(n)' = Asked(n)
  BY DEF Answered, Asked
<1> QED
  BY <1>1 DEF RepliesInOrder

(* The next line is a request exactly when one more is asked.              *)
LEMMA OneMoreAsked ==
  ASSUME McpInvariant, read' = read + 1, read + 1 \in 1..Len(lines),
         lines[read + 1] \notin Requests
  PROVE  Asked(read + 1) = Asked(read)
  BY DEF McpInvariant, McpTypeOK, Asked

LEMMA RunKeepsOrder == McpInvariant /\ RepliesInOrder /\ Run => RepliesInOrder'
<1> SUFFICES ASSUME McpInvariant, RepliesInOrder, Run PROVE RepliesInOrder'
  OBVIOUS
<1>0. read \in Nat
  BY DEF McpInvariant, McpTypeOK
<1>1. CASE Skip
  <2>1. /\ read + 1 \in 1..Len(lines) /\ read' = read + 1
        /\ lines[read + 1] \notin Requests
    BY <1>1, TakeStep DEF Skip, Kinds, Requests, Tools
  <2>2. Answered' = Answered /\ \A n : Asked(n)' = Asked(n)
    BY <1>1 DEF Skip, Answered, Asked
  <2> QED
    BY <1>1, <2>1, <2>2, OneMoreAsked DEF Skip, Take, RepliesInOrder
<1>2. CASE Overlong
  <2>1. /\ read + 1 \in 1..Len(lines) /\ read' = read + 1
        /\ lines[read + 1] \notin Requests
    BY <1>2, TakeStep DEF Overlong, Kinds, Requests, Tools
  <2>2. Answered' = Answered /\ \A n : Asked(n)' = Asked(n)
    BY <1>2 DEF Overlong, Answered, Asked
  <2> QED
    BY <1>2, <2>1, <2>2, OneMoreAsked DEF Overlong, Take, RepliesInOrder
<1>3. CASE AnswerAtOnce
  <2>1. /\ read + 1 \in 1..Len(lines) /\ read' = read + 1
        /\ lines[read + 1] \in Requests
    BY <1>3, TakeStep DEF AnswerAtOnce, Kinds
  <2>2. PICK kind \in {"result", "error"} : Reply(read + 1, kind, 0)
    BY <1>3 DEF AnswerAtOnce
  <2>3. Answered = Asked((read + 1) - 1)
    BY <1>0, <1>3 DEF AnswerAtOnce, Take, RepliesInOrder
  <2> QED
    BY <1>3, <2>1, <2>2, <2>3, AnsweringKeepsOrder DEF AnswerAtOnce, RepliesInOrder
<1>4. CASE Start \/ Forward
  <2>1. /\ read' = read + 1 /\ phase = "reading" /\ phase' \in {"command", "calling"}
        /\ UNCHANGED <<lines, replies>>
    BY <1>4 DEF Start, Forward, Take, Post
  <2>2. Answered' = Answered /\ \A n : Asked(n)' = Asked(n)
    BY <2>1 DEF Answered, Asked
  <2>3. Asked((read + 1) - 1) = Asked(read)
    BY <1>0
  <2> QED
    BY <2>1, <2>2, <2>3 DEF RepliesInOrder
<1>5. CASE Reap
  BY <1>5, SilenceKeepsOrder DEF Reap, Change
<1>6. CASE Collect /\ Command.exit = 0 /\ Command.expired
  BY <1>6, AtRequest, AnsweringKeepsOrder DEF Collect, RepliesInOrder
<1>7. CASE Collect /\ ~(Command.exit = 0 /\ Command.expired)
  BY <1>7, SilenceKeepsOrder DEF Collect, Post
<1>8. CASE Receive
  <2>1. /\ phase = "calling" /\ UNCHANGED <<lines, read>>
        /\ \E kind, exit : Reply(read, kind, exit)
    BY <1>8 DEF Receive
  <2> QED
    BY <2>1, AtRequest, AnsweringKeepsOrder DEF RepliesInOrder
<1> QED
  BY <1>1, <1>2, <1>3, <1>4, <1>5, <1>6, <1>7, <1>8 DEF Run

LEMMA OrderStep == McpInvariant /\ RepliesInOrder /\ [Next]_vars => RepliesInOrder'
<1> SUFFICES ASSUME McpInvariant, RepliesInOrder, [Next]_vars PROVE RepliesInOrder'
  OBVIOUS
<1>1. CASE GiveUp
  BY <1>1, AtRequest, AnsweringKeepsOrder DEF GiveUp, RepliesInOrder
<1>2. CASE EndOfInput
  BY <1>2, SilenceKeepsOrder DEF EndOfInput
<1>3. CASE Die
  BY <1>3, SilenceKeepsOrder DEF Die, McpInvariant, McpTypeOK
<1>4. CASE Expire \/ Write \/ Fork \/ LetGo \/ Exit
  BY <1>4, SilenceKeepsOrder DEF Expire, Write, Fork, LetGo, Exit, Change
<1>5. CASE Api
  BY <1>5, SilenceKeepsOrder DEF Api, ApiAnswers
<1>6. CASE Finished \/ UNCHANGED vars
  BY <1>6, SilenceKeepsOrder DEF Finished, vars
<1> QED
  BY <1>1, <1>2, <1>3, <1>4, <1>5, <1>6, RunKeepsOrder DEF Next

(* For every input, every command and every API: one reply to each         *)
(* request, in the order of the requests, and none to anything else        *)
(* (server.go:46-64).                                                      *)
THEOREM RepliesAlwaysInOrder == Spec => []RepliesInOrder
<1>1. Init => RepliesInOrder
  BY DEF Init, RepliesInOrder, Answered, Asked
<1> QED
  BY <1>1, OrderStep, AlwaysMcpInvariant, PTL DEF Spec

=============================================================================
