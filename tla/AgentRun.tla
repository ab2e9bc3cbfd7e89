-------------------------------- MODULE AgentRun --------------------------------
(***************************************************************************)
(* A streamed run of the strategy agent (packages/agent-core, tax-strategy   *)
(* and fx-strategy Lambdas): one request is checked, its context is read     *)
(* from the database, and a model is asked in turns, its tool calls executed *)
(* one after the other, until it ends its turn or the turns are used up.     *)
(* Everything is told to the browser as server-sent events, with heartbeats  *)
(* from a timer in between; an error boundary writes what a throw has left   *)
(* untold and closes the stream.                                             *)
(*                                                                         *)
(* What runs between two awaits is one action.  Prompts, texts, arguments    *)
(* and results are left out: a tool has a name, and succeeds or fails.       *)
(***************************************************************************)
EXTENDS Integers, Sequences, FiniteSets

CONSTANTS
  Tools,          \* names of the tools of the scenario
  Misnamed,       \* names of none, which a model may still call
  MaxIterations,
  MaxUses,        \* bounds: tool calls in a turn, heartbeats
  MaxBeats

Names == Tools \cup Misnamed

ASSUME AgentAssumption ==
  /\ MaxIterations \in Nat \ {0} /\ MaxUses \in Nat /\ MaxBeats \in Nat
  /\ Tools \cap Misnamed = {}

VARIABLES
  pc,
  beating,    \* whether the timer of the heartbeats runs
  beats,      \* how many there were
  stream,     \* events written
  iteration,
  messages,   \* the conversation so far
  todo,       \* tool calls of the turn not executed yet
  results,    \* of those executed
  stop,       \* the turn's stop reason
  toolCalls

turnVars == <<iteration, messages, todo, results, stop, toolCalls>>
vars == <<pc, beating, beats, stream, turnVars>>

Uses    == UNION {[1 .. n -> Names] : n \in 0 .. MaxUses}
Stops   == {"end_turn", "tool_use", "max_tokens"}
\* Of a tool's execution: what it returns is a success, also that nothing was found.
Outcomes == {"success", "error"}
Message == [role : {"user", "assistant"}, uses : Uses, results : Seq(Outcomes)]

Event(t) == [type |-> t, count |-> 0]
Prompt   == [role |-> "user", uses |-> << >>, results |-> << >>]

Init ==
  /\ pc = "idle" /\ beating = FALSE /\ beats = 0
  /\ stream = << >>
  /\ iteration = 0 /\ messages = << >>
  /\ todo = << >> /\ results = << >> /\ stop = "end_turn"
  /\ toolCalls = 0
---------------------------------------------------------------------------
Write(events) == stream' = stream \o events

Request ==
  /\ pc = "idle"
  /\ pc' = "check"
  /\ UNCHANGED <<beating, beats, stream, turnVars>>

\* Token, body and path are in order.
Accept ==
  /\ pc = "check"
  /\ Write(<<Event("started")>>)
  /\ pc' = "context"
  /\ UNCHANGED <<beating, beats, turnVars>>

\* The context is there; the timer is set, and the model asked.
ContextReady ==
  /\ pc = "context"
  /\ Write(<<Event("context_ready")>>)
  /\ beating' = TRUE
  /\ messages' = <<Prompt>>
  /\ pc' = "model"
  /\ UNCHANGED <<beats, iteration, todo, results, stop, toolCalls>>

\* Deviation: the timer is left running.
StillBeating == beating
\* finally: clearInterval.
Quiet == FALSE

\* What is written when the loop is left.
Tell(calls) == <<Event("final"), [type |-> "done", count |-> calls]>>

\* A turn of the model: text, and tool calls.  It is the last one without tool calls or
\* when the model ends its turn.
Answer ==
  /\ pc = "model"
  /\ \E text \in BOOLEAN, uses \in Uses, s \in Stops :
       LET said == IF text THEN <<Event("text_delta")>> ELSE << >> IN
       /\ s = "tool_use" => uses # << >>
       /\ messages' = Append(messages, [role |-> "assistant", uses |-> uses, results |-> << >>])
       /\ stop' = s /\ results' = << >>
       /\ IF uses = << >> \/ s = "end_turn"
          THEN /\ pc' = "closing" /\ beating' = Quiet
               /\ todo' = << >>
               /\ Write(said \o Tell(toolCalls))
          ELSE /\ pc' = "tools" /\ todo' = uses
               /\ Write(said)
               /\ UNCHANGED beating
  /\ UNCHANGED <<beats, iteration, toolCalls>>

\* Deviations: no result for an unknown tool; a call counted once its result is there.
PassedOver == results
UnknownTool == Append(results, "error")
CountsNot == toolCalls
Counted   == toolCalls + 1

CallTool ==
  /\ pc = "tools" /\ todo # << >>
  /\ IF Head(todo) \in Tools
     THEN /\ pc' = "tool"
          /\ toolCalls' = Counted
          /\ Write(<<Event("tool_call")>>)
          /\ UNCHANGED <<todo, results>>
     ELSE /\ todo' = Tail(todo)
          /\ results' = UnknownTool
          /\ UNCHANGED <<pc, stream, toolCalls>>
  /\ UNCHANGED <<beating, beats, iteration, messages, stop>>

\* A tool that throws is an error for the model, not for the run.
ToolEnds ==
  /\ pc = "tool"
  /\ \E how \in Outcomes : results' = Append(results, how)
  /\ Write(<<Event("tool_result")>>)
  /\ todo' = Tail(todo)
  /\ pc' = "tools"
  /\ UNCHANGED <<beating, beats, iteration, messages, stop, toolCalls>>

\* The loop goes on after its turn i.
MoreTurns(i) == i + 1 < MaxIterations

\* The results are the next message.  A turn that was cut off is the last one, and so is
\* that of the last iteration: the run ends without the model having seen the results.
ToolsDone ==
  /\ pc = "tools" /\ todo = << >>
  /\ messages' = Append(messages, [role |-> "user", uses |-> << >>, results |-> results])
  /\ IF stop = "tool_use" /\ MoreTurns(iteration)
     THEN iteration' = iteration + 1 /\ pc' = "model" /\ UNCHANGED <<beating, stream>>
     ELSE /\ pc' = "closing" /\ beating' = Quiet
          /\ Write(Tell(toolCalls))
          /\ UNCHANGED iteration
  /\ UNCHANGED <<beats, todo, results, stop, toolCalls>>

\* Deviation: a stream with an error is not closed.
NotClosed == "open"
\* finally: the stream is closed.
Boundary == "closing"

\* A bad request, or a failing database or model: told as an error that counts no calls.
Throw ==
  /\ pc \in {"check", "context", "model"}
  /\ pc' = Boundary
  /\ beating' = Quiet
  /\ Write(<<Event("error"), Event("done")>>)
  /\ UNCHANGED <<beats, turnVars>>

Close ==
  /\ pc = "closing"
  /\ pc' = "closed"
  /\ UNCHANGED <<beating, beats, stream, turnVars>>

Heartbeat ==
  /\ beating /\ pc # "closed" /\ beats < MaxBeats
  /\ beats' = beats + 1
  /\ Write(<<Event("heartbeat")>>)
  /\ UNCHANGED <<pc, beating, turnVars>>

\* The Lambda's time is over.
Killed ==
  /\ pc \in {"check", "context", "model", "tools", "tool"}
  /\ pc' = "killed" /\ beating' = FALSE
  /\ UNCHANGED <<beats, stream, turnVars>>

Step == Accept \/ ContextReady \/ Answer \/ CallTool \/ ToolEnds \/ ToolsDone \/ Throw \/ Close
Next == Request \/ Step \/ Heartbeat \/ Killed

\* Calls of the model, of the database and of a tool end or time out.
Spec == Init /\ [][Next]_vars /\ WF_vars(Step)
---------------------------------------------------------------------------
(* Properties.                                                             *)

Labels == {"idle", "check", "context", "model", "tools", "tool", "closing", "closed", "killed"}
Types  == {"started", "context_ready", "text_delta", "tool_call", "tool_result", "heartbeat",
           "final", "error", "done"}

\* Every variable has its type.
TypeOK ==
  /\ pc \in Labels /\ beating \in BOOLEAN /\ beats \in 0 .. MaxBeats
  /\ stream \in Seq([type : Types, count : Nat])
  /\ iteration \in 0 .. MaxIterations - 1
  /\ messages \in Seq(Message)
  /\ todo \in Uses /\ results \in Seq(Outcomes) /\ stop \in Stops
  /\ toolCalls \in Nat

Last(s) == s[Len(s)]
At(t)   == {i \in DOMAIN stream : stream[i].type = t}

\* What the browser reads ends with exactly one final or error and one done after it:
\* nothing follows, not even a heartbeat of the timer, and nothing is missing when the
\* stream is closed.
EndsOnce ==
  /\ \A i \in At("done") : i = Len(stream) /\ i - 1 \in At("final") \cup At("error")
  /\ \A i \in At("final") \cup At("error") : i + 1 \in At("done")
  /\ pc \in {"closing", "closed"} => At("done") # {}

\* A conversation sent to the model alternates its roles, and each message with tool calls
\* is followed by one with as many results: the model refuses any other.
CallsAnswered ==
  pc = "model" =>
    \A i \in DOMAIN messages :
      /\ messages[i].role = IF i % 2 = 1 THEN "user" ELSE "assistant"
      /\ messages[i].uses # << >> =>
           i < Len(messages) /\ Len(messages[i + 1].results) = Len(messages[i].uses)

\* Every call told to the browser is followed by its result, and a run that ends well
\* counts just these calls.
CallsTold ==
  /\ At("tool_call") # {} /\ pc \notin {"tool", "killed"} =>
       Cardinality(At("tool_call")) = Cardinality(At("tool_result"))
  /\ \A i \in At("final") : stream[i + 1].count = Cardinality(At("tool_result"))

\* A request that was taken up is answered to its end, unless its Lambda runs out of time:
\* the turns are bounded, and the stream is closed on every path.
Ends == pc = "check" ~> pc \in {"closed", "killed"}
=============================================================================
