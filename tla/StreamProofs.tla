------------------------------ MODULE StreamProofs ------------------------------
(***************************************************************************)
(* Theorems of the two Lambdas that stream their response, the agent's run   *)
(* (AgentRun) and the bank sync (SyncRun), which share no variable.          *)
(*                                                                         *)
(* AgentRun, for any tools, misnamed calls and bounds: its types, that a     *)
(* stream tells its end exactly once and last, that the model is only ever   *)
(* sent conversations whose tool calls are answered, and that every call     *)
(* told has its result told and is counted.                                  *)
(*                                                                         *)
(* SyncRun, for any accounts, runs and faults: its types, that the counters  *)
(* of a completed run are those of its outcome rows, one for each account,   *)
(* that a balance recorded as updated was written, and that done is only     *)
(* heard of a completed run.                                                 *)
(***************************************************************************)
EXTENDS AgentRun, SyncRun, SequenceTheorems, FiniteSetTheorems, TLAPS
---------------------------------------------------------------------------
(* The agent's run.                                                        *)

Told    == {"closing", "closed"}
Running == {"model", "tools", "tool"}

Verdicts == {"final", "error"}
Plain(s) == \A i \in DOMAIN s : s[i].type \notin Verdicts \cup {"done"}

\* done is the last event, final or error the one before it, and neither is anywhere else.
Ended(s) ==
  /\ Len(s) >= 2
  /\ \A i \in DOMAIN s :
       /\ s[i].type = "done" <=> i = Len(s)
       /\ s[i].type \in Verdicts <=> i = Len(s) - 1

\* Only a run that has told its end has written it; the timer does not run then.
Ending == IF pc \in Told THEN Ended(stream) /\ ~beating ELSE Plain(stream)

\* Roles alternate, and all messages but the last one are answered if they have calls.
Answered ==
  \A i \in DOMAIN messages :
    /\ messages[i].role = IF i % 2 = 1 THEN "user" ELSE "assistant"
    /\ i < Len(messages) /\ messages[i].uses # << >> =>
         Len(messages[i + 1].results) = Len(messages[i].uses)

\* The model is asked after a message of the user; while tools run the last message is the
\* model's, and its calls are those executed and those still to do.
Turn ==
  /\ pc \in {"idle", "check", "context"} => messages = << >>
  /\ pc \in Running => messages # << >> /\ Answered
  /\ pc = "model" => Len(messages) % 2 = 1 /\ messages[Len(messages)].uses = << >>
  /\ pc \in {"tools", "tool"} =>
       /\ Len(messages) % 2 = 0
       /\ Len(results) + Len(todo) = Len(messages[Len(messages)].uses)

\* A tool runs for the first of the calls to do.
Busy == pc = "tool" => todo # << >>
---------------------------------------------------------------------------
(* Sequences.                                                              *)

\* Tool calls of a turn are a sequence of names, and so are those without the first.
LEMMA UsesAreSequences ==
  ASSUME NEW s \in Uses
  PROVE  /\ s \in Seq(Names)
         /\ s # << >> => Tail(s) \in Uses /\ Head(s) \in Names /\ Len(Tail(s)) = Len(s) - 1
<1>1. PICK n \in 0 .. MaxUses : s \in [1 .. n -> Names]
  BY DEF Uses
<1>2. n \in Nat /\ s \in Seq(Names) /\ Len(s) = n
  BY <1>1, AgentAssumption
<1>3. ASSUME s # << >>
      PROVE  Tail(s) \in Uses /\ Head(s) \in Names /\ Len(Tail(s)) = Len(s) - 1
  <2>1. n # 0
    BY <1>2, <1>3
  <2>2. Tail(s) \in Seq(Names) /\ Head(s) \in Names /\ Len(Tail(s)) = n - 1
    BY <1>2, <1>3, <2>1, HeadTailProperties
  <2>3. Tail(s) \in [1 .. n - 1 -> Names]
    BY <2>2, LenProperties
  <2>. QED  BY <1>2, <2>1, <2>2, <2>3, AgentAssumption DEF Uses
<1>. QED  BY <1>2, <1>3

\* No calls are a turn's calls too.
LEMMA NoUses == << >> \in Uses
<1>1. << >> \in [1 .. 0 -> Names]
  BY EmptySeq
<1>. QED  BY <1>1, AgentAssumption DEF Uses

AgentEvents == [type : Types, count : Nat]

\* What is written comes after what was.
LEMMA Written ==
  ASSUME NEW old \in Seq(AgentEvents), NEW events \in Seq(AgentEvents)
  PROVE  /\ old \o events \in Seq(AgentEvents)
         /\ Len(old \o events) = Len(old) + Len(events)
         /\ \A i \in DOMAIN old : (old \o events)[i] = old[i]
         /\ \A i \in DOMAIN events : (old \o events)[Len(old) + i] = events[i]
BY ConcatProperties

\* The events written by the actions.
LEMMA EventsAreTyped ==
  ASSUME NEW n \in Nat
  PROVE  /\ \A t \in Types : Event(t) \in AgentEvents /\ <<Event(t)>> \in Seq(AgentEvents)
         /\ Tell(n) \in Seq(AgentEvents)
         /\ <<Event("error"), Event("done")>> \in Seq(AgentEvents)
         /\ << >> \in Seq(AgentEvents)
BY DEF Event, Tell, AgentEvents, Types
---------------------------------------------------------------------------
(* Types.                                                                  *)

LEMMA TypeInit == Init => TypeOK
<1>. SUFFICES ASSUME Init PROVE TypeOK  OBVIOUS
<1>1. << >> \in Seq(AgentEvents) /\ << >> \in Seq(Message) /\ << >> \in Seq(Outcomes)
  BY EmptySeq
<1>2. beats \in 0 .. MaxBeats /\ iteration \in 0 .. MaxIterations - 1 /\ toolCalls \in Nat
  BY AgentAssumption DEF Init
<1>3. stream \in Seq(AgentEvents) /\ messages \in Seq(Message) /\ results \in Seq(Outcomes)
  BY <1>1 DEF Init
<1>4. todo \in Uses
  BY NoUses DEF Init
<1>5. pc \in Labels /\ beating \in BOOLEAN /\ stop \in Stops
  BY DEF Init, Labels, Stops
<1>. QED  BY <1>2, <1>3, <1>4, <1>5 DEF TypeOK, AgentEvents

LEMMA TypeNext == TypeOK /\ Busy /\ [Next]_vars => TypeOK'
<1>. SUFFICES ASSUME TypeOK, Busy, [Next]_vars PROVE TypeOK'  OBVIOUS
<1>1. stream \in Seq(AgentEvents) /\ toolCalls \in Nat /\ iteration \in 0 .. MaxIterations - 1
        /\ messages \in Seq(Message) /\ todo \in Uses /\ results \in Seq(Outcomes)
  BY DEF TypeOK, AgentEvents
<1>2. CASE Request
  BY <1>2 DEF Request, TypeOK, Labels, turnVars
<1>3. CASE Accept
  <2>1. stream' \in Seq(AgentEvents)
    BY <1>1, <1>3, Written, EventsAreTyped DEF Accept, Write, Types
  <2>. QED  BY <1>3, <2>1 DEF Accept, TypeOK, Labels, turnVars, AgentEvents
<1>4. CASE ContextReady
  <2>1. stream' \in Seq(AgentEvents)
    BY <1>1, <1>4, Written, EventsAreTyped DEF ContextReady, Write, Types
  <2>2. Prompt \in Message
    BY NoUses, EmptySeq DEF Prompt, Message
  <2>3. messages' \in Seq(Message)
    BY <1>4, <2>2 DEF ContextReady
  <2>. QED  BY <1>4, <2>1, <2>3 DEF ContextReady, TypeOK, Labels, AgentEvents
<1>5. CASE Answer
  <2>1. PICK text \in BOOLEAN, uses \in Uses, s \in Stops :
          LET said == IF text THEN <<Event("text_delta")>> ELSE << >> IN
          /\ messages' = Append(messages, [role |-> "assistant", uses |-> uses, results |-> << >>])
          /\ stop' = s /\ results' = << >>
          /\ \/ /\ pc' = "closing" /\ beating' = Quiet /\ todo' = << >>
                /\ stream' = stream \o (said \o Tell(toolCalls))
             \/ /\ pc' = "tools" /\ todo' = uses
                /\ stream' = stream \o said /\ beating' = beating
    BY <1>5 DEF Answer, Write
  <2>. DEFINE said == IF text THEN <<Event("text_delta")>> ELSE << >>
  <2>2. said \in Seq(AgentEvents) /\ said \o Tell(toolCalls) \in Seq(AgentEvents)
    BY <1>1, EventsAreTyped, Written DEF Types
  <2>3. stream' \in Seq(AgentEvents)
    BY <1>1, <2>1, <2>2, Written
  <2>4. [role |-> "assistant", uses |-> uses, results |-> << >>] \in Message
    BY EmptySeq DEF Message
  <2>5. messages' \in Seq(Message)
    BY <1>1, <2>1, <2>4, AppendProperties
  <2>6. todo' \in Uses /\ results' \in Seq(Outcomes) /\ stop' \in Stops /\ pc' \in Labels
          /\ beating' \in BOOLEAN
    BY <2>1, NoUses, EmptySeq DEF Labels, Quiet, TypeOK
  <2>. QED  BY <1>5, <2>3, <2>5, <2>6 DEF Answer, TypeOK, AgentEvents
<1>6. CASE CallTool
  <2>1. stream' \in Seq(AgentEvents)
    BY <1>1, <1>6, Written, EventsAreTyped DEF CallTool, Write, Types
  <2>2. todo' \in Uses
    <3>1. todo' = todo \/ todo' = Tail(todo)
      BY <1>6 DEF CallTool
    <3>2. Tail(todo) \in Uses
      BY <1>1, <1>6, UsesAreSequences DEF CallTool
    <3>. QED  BY <1>1, <3>1, <3>2
  <2>3. results' \in Seq(Outcomes)
    BY <1>1, <1>6, AppendProperties DEF CallTool, UnknownTool, Outcomes
  <2>. QED  BY <1>6, <2>1, <2>2, <2>3 DEF CallTool, Counted, TypeOK, Labels, AgentEvents
<1>7. CASE ToolEnds
  <2>1. stream' \in Seq(AgentEvents)
    BY <1>1, <1>7, Written, EventsAreTyped DEF ToolEnds, Write, Types
  <2>2. results' \in Seq(Outcomes)
    BY <1>1, <1>7, AppendProperties DEF ToolEnds
  <2>3. todo' \in Uses
    BY <1>1, <1>7, UsesAreSequences DEF ToolEnds, Busy
  <2>. QED  BY <1>7, <2>1, <2>2, <2>3 DEF ToolEnds, TypeOK, Labels, AgentEvents
<1>8. CASE ToolsDone
  <2>1. stream' \in Seq(AgentEvents)
    BY <1>1, <1>8, Written, EventsAreTyped DEF ToolsDone, Write
  <2>2. [role |-> "user", uses |-> << >>, results |-> results] \in Message
    BY <1>1, NoUses DEF Message
  <2>3. messages' \in Seq(Message)
    BY <1>1, <1>8, <2>2, AppendProperties DEF ToolsDone
  <2>4. iteration' \in 0 .. MaxIterations - 1
    BY <1>1, <1>8, AgentAssumption DEF ToolsDone, MoreTurns
  <2>5. pc' \in Labels /\ beating' \in BOOLEAN
    BY <1>8, Zenon DEF ToolsDone, Quiet, Labels, TypeOK
  <2>. QED  BY <1>8, <2>1, <2>3, <2>4, <2>5 DEF ToolsDone, TypeOK, AgentEvents
<1>9. CASE Throw
  <2>1. stream' \in Seq(AgentEvents)
    BY <1>1, <1>9, Written, EventsAreTyped DEF Throw, Write
  <2>. QED  BY <1>9, <2>1 DEF Throw, Boundary, Quiet, TypeOK, Labels, turnVars, AgentEvents
<1>10. CASE Close \/ Killed
  BY <1>10 DEF Close, Killed, TypeOK, Labels, turnVars
<1>11. CASE Heartbeat
  <2>1. stream' \in Seq(AgentEvents)
    BY <1>1, <1>11, Written, EventsAreTyped DEF Heartbeat, Write, Types
  <2>. QED  BY <1>11, <2>1, AgentAssumption DEF Heartbeat, TypeOK, turnVars, AgentEvents
<1>12. CASE UNCHANGED vars
  BY <1>12 DEF vars, turnVars, TypeOK
<1>. QED  BY <1>2, <1>3, <1>4, <1>5, <1>6, <1>7, <1>8, <1>9, <1>10, <1>11, <1>12 DEF Next, Step

LEMMA BusyNext == Busy /\ [Next]_vars => Busy'
BY Zenon DEF Busy, Next, Step, Request, Accept, ContextReady, Answer, CallTool, ToolEnds,
  ToolsDone, Throw, Boundary, Close, Heartbeat, Killed, vars, turnVars

\* Every variable has its type, for any tools and bounds.
THEOREM TypeCorrect == Spec => [](TypeOK /\ Busy)
<1>1. Init => TypeOK /\ Busy
  BY TypeInit DEF Init, Busy
<1>2. TypeOK /\ Busy /\ [Next]_vars => (TypeOK /\ Busy)'
  BY TypeNext, BusyNext
<1>. QED  BY <1>1, <1>2, PTL DEF Spec
---------------------------------------------------------------------------
(* The end of a stream.                                                    *)

LEMMA PlainAppended ==
  ASSUME NEW old \in Seq(AgentEvents), NEW events \in Seq(AgentEvents), Plain(old), Plain(events)
  PROVE  Plain(old \o events)
BY ConcatProperties DEF Plain

LEMMA EndAppended ==
  ASSUME NEW old \in Seq(AgentEvents), NEW events \in Seq(AgentEvents), Plain(old), Ended(events)
  PROVE  Ended(old \o events)
<1>. DEFINE new == old \o events
<1>1. Len(new) = Len(old) + Len(events) /\ Len(old) \in Nat /\ Len(events) \in Nat
  BY ConcatProperties
<1>2. Len(new) >= 2
  BY <1>1 DEF Ended
<1>3. ASSUME NEW i \in 1 .. Len(old)
      PROVE  /\ new[i].type = "done" <=> i = Len(new)
             /\ new[i].type \in Verdicts <=> i = Len(new) - 1
  <2>1. new[i] = old[i]
    BY ConcatProperties
  <2>2. new[i].type \notin Verdicts \cup {"done"}
    BY <2>1 DEF Plain
  <2>3. i < Len(new) - 1
    BY <1>1 DEF Ended
  <2>. QED  BY <2>2, <2>3, <1>1
<1>4. ASSUME NEW i \in Len(old) + 1 .. Len(new)
      PROVE  /\ new[i].type = "done" <=> i = Len(new)
             /\ new[i].type \in Verdicts <=> i = Len(new) - 1
  <2>1. i - Len(old) \in DOMAIN events /\ new[i] = events[i - Len(old)]
    BY <1>1, ConcatProperties
  <2>2. /\ events[i - Len(old)].type = "done" <=> i - Len(old) = Len(events)
        /\ events[i - Len(old)].type \in Verdicts <=> i - Len(old) = Len(events) - 1
    BY <2>1 DEF Ended
  <2>3. /\ i - Len(old) = Len(events) <=> i = Len(new)
        /\ i - Len(old) = Len(events) - 1 <=> i = Len(new) - 1
    BY <1>1
  <2>. QED  BY <2>1, <2>2, <2>3
<1>5. DOMAIN new = 1 .. Len(old) \cup (Len(old) + 1 .. Len(new))
  BY <1>1, ConcatProperties
<1>. HIDE DEF new
<1>6. \A i \in DOMAIN new :
        /\ new[i].type = "done" <=> i = Len(new)
        /\ new[i].type \in Verdicts <=> i = Len(new) - 1
  BY <1>3, <1>4, <1>5
<1>7. Ended(new)
  BY <1>2, <1>6 DEF Ended
<1>. QED  BY <1>7 DEF new

\* What is told when a run is left is an end.
LEMMA TellEnds ==
  ASSUME NEW n \in Nat
  PROVE  Ended(Tell(n)) /\ Ended(<<Event("error"), Event("done")>>)
BY DEF Ended, Tell, Event, Verdicts

LEMMA OthersArePlain ==
  /\ Plain(<< >>)
  /\ \A t \in Types \ (Verdicts \cup {"done"}) : Plain(<<Event(t)>>)
BY DEF Plain, Event, Verdicts

LEMMA EndingNext == TypeOK /\ Ending /\ [Next]_vars => Ending'
<1>. SUFFICES ASSUME TypeOK, Ending, [Next]_vars PROVE Ending'  OBVIOUS
<1>. USE DEF Told
<1>1. stream \in Seq(AgentEvents) /\ toolCalls \in Nat
  BY DEF TypeOK, AgentEvents
<1>2. ASSUME NEW said \in Seq(AgentEvents), Plain(said), pc \notin Told, pc' \notin Told,
             stream' = stream \o said
      PROVE  Ending'
  BY <1>1, <1>2, PlainAppended DEF Ending
<1>3. ASSUME NEW said \in Seq(AgentEvents), Ended(said), pc \notin Told, pc' \in Told,
             stream' = stream \o said, ~beating'
      PROVE  Ending'
  BY <1>1, <1>3, EndAppended DEF Ending
<1>4. ASSUME NEW t \in Types \ (Verdicts \cup {"done"}), pc \notin Told, pc' \notin Told,
             stream' = stream \o <<Event(t)>>
      PROVE  Ending'
  BY <1>1, <1>2, <1>4, EventsAreTyped, OthersArePlain
<1>5. {"started", "context_ready", "text_delta", "tool_call", "tool_result", "heartbeat"}
        \subseteq Types \ (Verdicts \cup {"done"})
  BY DEF Types, Verdicts
<1>6. CASE Accept \/ ContextReady \/ ToolEnds
  BY <1>4, <1>5, <1>6, Zenon DEF Accept, ContextReady, ToolEnds, Write
<1>7. CASE Heartbeat
  BY <1>4, <1>5, <1>7 DEF Heartbeat, Write, Ending, turnVars
<1>8. CASE CallTool
  <2>1. CASE Head(todo) \in Tools
    BY <1>4, <1>5, <1>8, <2>1 DEF CallTool, Write
  <2>2. CASE Head(todo) \notin Tools
    BY <1>8, <2>2 DEF CallTool, Ending
  <2>. QED  BY <2>1, <2>2
<1>9. CASE Answer
  <2>1. PICK text \in BOOLEAN :
          LET said == IF text THEN <<Event("text_delta")>> ELSE << >> IN
          \/ pc' = "closing" /\ beating' = Quiet /\ stream' = stream \o (said \o Tell(toolCalls))
          \/ pc' = "tools" /\ stream' = stream \o said
    BY <1>9 DEF Answer, Write
  <2>. DEFINE said == IF text THEN <<Event("text_delta")>> ELSE << >>
  <2>2. said \in Seq(AgentEvents) /\ Plain(said)
    BY <1>1, <1>5, EventsAreTyped, OthersArePlain
  <2>3. said \o Tell(toolCalls) \in Seq(AgentEvents) /\ Ended(said \o Tell(toolCalls))
    BY <1>1, <2>2, EventsAreTyped, TellEnds, EndAppended, ConcatProperties
  <2>4. pc = "model"
    BY <1>9 DEF Answer
  <2>. HIDE DEF said
  <2>5. CASE pc' = "closing" /\ beating' = Quiet /\ stream' = stream \o (said \o Tell(toolCalls))
    BY <1>3, <2>3, <2>4, <2>5 DEF Quiet
  <2>6. CASE pc' = "tools" /\ stream' = stream \o said
    BY <1>2, <2>2, <2>4, <2>6
  <2>. QED  BY <2>1, <2>5, <2>6 DEF said
<1>10. CASE ToolsDone
  <2>1. CASE pc' = "model" /\ stream' = stream
    BY <1>10, <2>1 DEF ToolsDone, Ending
  <2>2. CASE pc' = "closing" /\ beating' = Quiet /\ stream' = stream \o Tell(toolCalls)
    BY <1>1, <1>3, <1>10, <2>2, EventsAreTyped, TellEnds DEF ToolsDone, Quiet
  <2>. QED  BY <1>10, <2>1, <2>2 DEF ToolsDone, Write
<1>11. CASE Throw
  BY <1>1, <1>3, <1>11, EventsAreTyped, TellEnds DEF Throw, Write, Boundary, Quiet
<1>12. CASE Request \/ Close \/ Killed
  BY <1>12 DEF Request, Close, Killed, Ending, turnVars
<1>13. CASE UNCHANGED vars
  BY <1>13 DEF vars, turnVars, Ending
<1>. QED  BY <1>6, <1>7, <1>8, <1>9, <1>10, <1>11, <1>12, <1>13 DEF Next, Step

\* The stream of a run ends with one final or error and one done after it, and nothing
\* follows, whatever the model and the tools do and whenever the timer strikes.
THEOREM StreamEndsOnce == Spec => []EndsOnce
<1>1. Init => Ending
  BY DEF Init, Ending, Told, Plain
<1>2. TypeOK /\ Ending => EndsOnce
  <2>. SUFFICES ASSUME TypeOK, Ending PROVE EndsOnce  OBVIOUS
  <2>1. stream \in Seq(AgentEvents)
    BY DEF TypeOK, AgentEvents
  <2>2. CASE pc \in Told
    BY <2>1, <2>2 DEF Ending, Ended, EndsOnce, At, Verdicts
  <2>3. CASE pc \notin Told
    BY <2>1, <2>3 DEF Ending, Plain, EndsOnce, At, Verdicts, Told
  <2>. QED  BY <2>2, <2>3
<1>. QED  BY <1>1, <1>2, TypeCorrect, EndingNext, PTL DEF Spec
---------------------------------------------------------------------------
(* Tool calls and their results.                                           *)

\* A message that keeps the alternation can follow if the last one has no calls, or as many
\* as it has results.
LEMMA AnswerAppended ==
  ASSUME NEW m \in Message, messages \in Seq(Message), Answered,
         messages' = Append(messages, m),
         m.role = IF (Len(messages) + 1) % 2 = 1 THEN "user" ELSE "assistant",
         messages # << >> /\ messages[Len(messages)].uses # << >> =>
           Len(m.results) = Len(messages[Len(messages)].uses)
  PROVE  Answered'
<1>. DEFINE n == Len(messages)
<1>1. /\ n \in Nat /\ Len(messages') = n + 1 /\ messages'[n + 1] = m
      /\ \A i \in 1 .. n : messages'[i] = messages[i]
      /\ DOMAIN messages = 1 .. n /\ DOMAIN messages' = 1 .. n + 1
  BY AppendProperties
<1>. SUFFICES ASSUME NEW i \in 1 .. n + 1
              PROVE  /\ messages'[i].role = IF i % 2 = 1 THEN "user" ELSE "assistant"
                     /\ i < n + 1 /\ messages'[i].uses # << >> =>
                          Len(messages'[i + 1].results) = Len(messages'[i].uses)
  BY <1>1 DEF Answered
<1>2. CASE i = n + 1
  BY <1>1, <1>2
<1>3. CASE i = n /\ n > 0
  <2>1. messages[n].role = IF n % 2 = 1 THEN "user" ELSE "assistant"
    BY <1>1, <1>3 DEF Answered
  <2>2. messages # << >>
    BY <1>1, <1>3
  <2>. QED  BY <1>1, <1>3, <2>1, <2>2
<1>4. CASE i < n
  BY <1>1, <1>4 DEF Answered
<1>5. n \in Nat
  BY <1>1
<1>. HIDE DEF n
<1>6. i = n + 1 \/ (i = n /\ n > 0) \/ i < n
  BY <1>5
<1>. QED  BY <1>2, <1>3, <1>4, <1>6

LEMMA TurnNext == TypeOK /\ Busy /\ Turn /\ [Next]_vars => Turn'
<1>. SUFFICES ASSUME TypeOK, Busy, Turn, [Next]_vars PROVE Turn'  OBVIOUS
<1>. USE DEF Running
<1>1. messages \in Seq(Message) /\ results \in Seq(Outcomes) /\ todo \in Uses
  BY DEF TypeOK
<1>2. CASE Request \/ Accept
  BY <1>2 DEF Request, Accept, Turn, Answered, turnVars
<1>3. CASE ContextReady
  <2>1. /\ messages' \in Seq(Message) /\ Len(messages') = 1 /\ messages' # << >>
        /\ messages'[1].role = "user" /\ messages'[1].uses = << >>
    BY <1>3, NoUses, EmptySeq DEF ContextReady, Prompt, Message
  <2>2. Answered'
    BY <2>1 DEF Answered
  <2>. QED  BY <1>3, <2>1, <2>2 DEF ContextReady, Turn
<1>4. CASE Answer
  <2>1. PICK text \in BOOLEAN, uses \in Uses, s \in Stops :
          /\ messages' = Append(messages, [role |-> "assistant", uses |-> uses, results |-> << >>])
          /\ results' = << >>
          /\ \/ pc' = "closing"
             \/ pc' = "tools" /\ todo' = uses
    BY <1>4 DEF Answer
  <2>. DEFINE m == [role |-> "assistant", uses |-> uses, results |-> << >>]
  <2>2. m \in Message
    BY EmptySeq DEF Message
  <2>3. /\ messages # << >> /\ Answered /\ Len(messages) % 2 = 1
        /\ messages[Len(messages)].uses = << >>
    BY <1>4 DEF Answer, Turn
  <2>4. Len(messages) \in Nat /\ (Len(messages) + 1) % 2 = 0
    BY <1>1, <2>3
  <2>5. Answered'
    BY <1>1, <2>1, <2>2, <2>3, <2>4, AnswerAppended
  <2>6. Len(messages') = Len(messages) + 1 /\ messages'[Len(messages')] = m /\ messages' # << >>
    BY <1>1, <2>1, <2>2, AppendProperties
  <2>7. pc' = "tools" => Len(results') + Len(todo') = Len(uses)
    BY <2>1, UsesAreSequences, LenProperties
  <2>. QED  BY <2>1, <2>4, <2>5, <2>6, <2>7 DEF Turn
<1>5. CASE CallTool
  <2>1. messages' = messages /\ Answered' /\ messages # << >> /\ Len(messages) % 2 = 0
    BY <1>5 DEF CallTool, Turn, Answered
  <2>2. CASE Head(todo) \in Tools
    BY <1>5, <2>1, <2>2 DEF CallTool, Turn
  <2>3. CASE Head(todo) \notin Tools
    <3>1. todo' = Tail(todo) /\ results' = Append(results, "error") /\ pc' = "tools" /\ todo # << >>
            /\ pc = "tools"
      BY <1>5, <2>3 DEF CallTool, UnknownTool
    <3>2. Len(Tail(todo)) = Len(todo) - 1 /\ Len(todo) \in Nat
      BY <1>1, <3>1, UsesAreSequences, LenProperties
    <3>3. Len(results') = Len(results) + 1 /\ Len(results) \in Nat
      BY <1>1, <3>1 DEF Outcomes
    <3>4. Len(results) + Len(todo) = Len(messages[Len(messages)].uses)
      BY <3>1 DEF Turn
    <3>5. Len(results') + Len(todo') = Len(results) + Len(todo)
      BY <3>1, <3>2, <3>3
    <3>6. Len(results') + Len(todo') = Len(messages'[Len(messages')].uses)
      BY <2>1, <3>4, <3>5, Zenon
    <3>. QED  BY <2>1, <3>1, <3>6 DEF Turn
  <2>. QED  BY <2>2, <2>3
<1>6. CASE ToolEnds
  <2>1. messages' = messages /\ Answered' /\ messages # << >> /\ Len(messages) % 2 = 0
    BY <1>6 DEF ToolEnds, Turn, Answered
  <2>2. PICK how \in Outcomes : results' = Append(results, how)
    BY <1>6 DEF ToolEnds
  <2>3. Len(results') = Len(results) + 1 /\ Len(results) \in Nat
    BY <1>1, <2>2
  <2>4. todo # << >> /\ todo' = Tail(todo) /\ pc' = "tools"
    BY <1>6 DEF ToolEnds, Busy
  <2>5. Len(todo') = Len(todo) - 1 /\ Len(todo) \in Nat
    BY <1>1, <2>4, UsesAreSequences, LenProperties
  <2>6. Len(results) + Len(todo) = Len(messages[Len(messages)].uses)
    BY <1>6 DEF Turn, ToolEnds
  <2>7. Len(results') + Len(todo') = Len(results) + Len(todo)
    BY <2>3, <2>5
  <2>8. Len(results') + Len(todo') = Len(messages'[Len(messages')].uses)
    BY <2>1, <2>6, <2>7, Zenon
  <2>. QED  BY <2>1, <2>4, <2>8 DEF Turn
<1>7. CASE ToolsDone
  <2>. DEFINE m == [role |-> "user", uses |-> << >>, results |-> results]
  <2>1. m \in Message
    BY <1>1, NoUses DEF Message
  <2>2. /\ messages # << >> /\ Answered /\ Len(messages) % 2 = 0
        /\ Len(results) = Len(messages[Len(messages)].uses)
    <3>1. Len(todo) = 0 /\ Len(results) \in Nat
      BY <1>1, <1>7 DEF ToolsDone
    <3>. QED  BY <1>7, <3>1 DEF ToolsDone, Turn
  <2>3. messages' = Append(messages, m) /\ (pc' = "model" \/ pc' = "closing")
    BY <1>7 DEF ToolsDone
  <2>4. Len(messages) \in Nat /\ (Len(messages) + 1) % 2 = 1
    BY <1>1, <2>2
  <2>5. Answered'
    BY <1>1, <2>1, <2>2, <2>3, <2>4, AnswerAppended
  <2>6. Len(messages') = Len(messages) + 1 /\ messages'[Len(messages')] = m /\ messages' # << >>
    BY <1>1, <2>1, <2>3, AppendProperties
  <2>. QED  BY <2>3, <2>4, <2>5, <2>6 DEF Turn
<1>8. CASE Throw \/ Close \/ Killed
  BY <1>8 DEF Throw, Boundary, Close, Killed, Turn, turnVars
<1>9. CASE Heartbeat \/ UNCHANGED vars
  BY <1>9 DEF Heartbeat, vars, turnVars, Turn, Answered
<1>. QED  BY <1>2, <1>3, <1>4, <1>5, <1>6, <1>7, <1>8, <1>9 DEF Next, Step

\* A conversation sent to the model is well formed: its roles alternate, and each of its
\* tool calls, of a known name or not, successful or not, has its result.
THEOREM EveryCallAnswered == Spec => []CallsAnswered
<1>1. Init => Turn
  BY DEF Init, Turn, Running
<1>2. TypeOK /\ Turn => CallsAnswered
  <2>. SUFFICES ASSUME TypeOK, Turn, pc = "model", NEW i \in DOMAIN messages
                PROVE  /\ messages[i].role = IF i % 2 = 1 THEN "user" ELSE "assistant"
                       /\ messages[i].uses # << >> =>
                            i < Len(messages) /\ Len(messages[i + 1].results) = Len(messages[i].uses)
    BY DEF CallsAnswered
  <2>1. messages \in Seq(Message)
    BY DEF TypeOK
  <2>. QED  BY <2>1 DEF Turn, Answered, Running
<1>. QED  BY <1>1, <1>2, TypeCorrect, TurnNext, PTL DEF Spec

---------------------------------------------------------------------------
(* The count of the calls.                                                 *)

\* How many events of a type there are.
Places(s, t) == {i \in DOMAIN s : s[i].type = t}
Number(s, t) == Cardinality(Places(s, t))

\* The calls told are counted, and all of them but the one that runs have their result told;
\* the count that is told at the end is theirs.
Tally ==
  /\ toolCalls = Number(stream, "tool_call")
  /\ pc # "killed" =>
       Number(stream, "tool_call") = Number(stream, "tool_result") + IF pc = "tool" THEN 1 ELSE 0
  /\ pc \in Told /\ stream[Len(stream) - 1].type = "final" =>
       stream[Len(stream)].count = Number(stream, "tool_result")

\* Other events change no number.
LEMMA NumberSame ==
  ASSUME NEW old \in Seq(AgentEvents), NEW events \in Seq(AgentEvents), NEW t,
         \A i \in DOMAIN events : events[i].type # t
  PROVE  Number(old \o events, t) = Number(old, t)
<1>1. Places(old \o events, t) = Places(old, t)
  BY ConcatProperties DEF Places
<1>. QED  BY <1>1 DEF Number

LEMMA PlacesAreFinite ==
  ASSUME NEW s \in Seq(AgentEvents), NEW t
  PROVE  IsFiniteSet(Places(s, t)) /\ Number(s, t) \in Nat
<1>1. Places(s, t) \subseteq 1 .. Len(s) /\ Len(s) \in Nat
  BY DEF Places
<1>2. IsFiniteSet(1 .. Len(s))
  BY <1>1, FS_Interval
<1>. QED  BY <1>1, <1>2, FS_Subset, FS_CardinalityType DEF Number

\* One more event.
LEMMA NumberMore ==
  ASSUME NEW old \in Seq(AgentEvents), NEW t \in Types
  PROVE  Number(old \o <<Event(t)>>, t) = Number(old, t) + 1
<1>. DEFINE n == Len(old) + 1
<1>1. Places(old \o <<Event(t)>>, t) = Places(old, t) \cup {n}
  <2>1. <<Event(t)>> \in Seq(AgentEvents) /\ Len(<<Event(t)>>) = 1 /\ <<Event(t)>>[1].type = t
    BY EventsAreTyped DEF Event
  <2>. QED  BY <2>1, ConcatProperties DEF Places
<1>2. n \notin Places(old, t)
  BY DEF Places
<1>. QED  BY <1>1, <1>2, PlacesAreFinite, FS_AddElement DEF Number

\* What is written that is not of a tool.
LEMMA OtherTypes ==
  /\ Event("started").type = "started" /\ Event("context_ready").type = "context_ready"
  /\ Event("text_delta").type = "text_delta" /\ Event("heartbeat").type = "heartbeat"
  /\ Event("error").type = "error" /\ Event("done").type = "done"
  /\ Event("tool_call").type = "tool_call" /\ Event("tool_result").type = "tool_result"
  /\ \A n : /\ Len(Tell(n)) = 2 /\ Tell(n)[1].type = "final"
                /\ Tell(n)[2].type = "done" /\ Tell(n)[2].count = n
BY DEF Event, Tell

\* Events that are not of a tool leave the tally as it is, unless they end the stream.
LEMMA TallyKept ==
  ASSUME TypeOK, Tally, NEW said \in Seq(AgentEvents),
         \A i \in DOMAIN said : said[i].type \notin {"tool_call", "tool_result"},
         stream' = stream \o said, toolCalls' = toolCalls, pc' # "killed" => pc # "killed",
         pc = "tool" <=> pc' = "tool",
         pc' \in Told => /\ Len(said) >= 2
                         /\ said[Len(said) - 1].type = "final" => said[Len(said)].count = toolCalls
  PROVE  Tally'
<1>1. stream \in Seq(AgentEvents) /\ Len(said) \in Nat /\ Len(stream) \in Nat
  BY DEF TypeOK, AgentEvents
<1>2. /\ Number(stream', "tool_call") = Number(stream, "tool_call")
      /\ Number(stream', "tool_result") = Number(stream, "tool_result")
  BY <1>1, NumberSame
<1>3. ASSUME pc' \in Told
      PROVE  /\ stream'[Len(stream')] = said[Len(said)]
             /\ stream'[Len(stream') - 1] = said[Len(said) - 1]
  <2>1. Len(stream') = Len(stream) + Len(said)
    BY <1>1, ConcatProperties
  <2>2. \A i \in DOMAIN said : stream'[Len(stream) + i] = said[i]
    BY <1>1, Written
  <2>3. Len(said) \in DOMAIN said /\ Len(said) - 1 \in DOMAIN said
    BY <1>1, <1>3
  <2>4. /\ Len(stream) + Len(said) = Len(stream')
        /\ Len(stream) + (Len(said) - 1) = Len(stream') - 1
    BY <1>1, <2>1
  <2>. QED  BY <2>2, <2>3, <2>4
<1>4. pc' \in Told => pc' # "killed" /\ pc' # "tool"
  BY DEF Told
<1>5. /\ toolCalls = Number(stream, "tool_call")
      /\ pc # "killed" =>
           Number(stream, "tool_call") = Number(stream, "tool_result") + IF pc = "tool" THEN 1 ELSE 0
  BY DEF Tally
<1>6. Number(stream, "tool_result") \in Nat
  BY <1>1, PlacesAreFinite
<1>7. pc' \in Told => toolCalls = Number(stream, "tool_result")
  BY <1>4, <1>5, <1>6
<1>8. pc' \in Told /\ stream'[Len(stream') - 1].type = "final" =>
        stream'[Len(stream')].count = Number(stream', "tool_result")
  BY <1>2, <1>3, <1>7
<1>. QED  BY <1>2, <1>5, <1>8 DEF Tally

LEMMA TallyNext == TypeOK /\ Ending /\ Tally /\ [Next]_vars => Tally'
<1>. SUFFICES ASSUME TypeOK, Ending, Tally, [Next]_vars PROVE Tally'  OBVIOUS
<1>1. stream \in Seq(AgentEvents) /\ toolCalls \in Nat
  BY DEF TypeOK, AgentEvents
<1>2. ASSUME NEW t \in Types \ {"tool_call", "tool_result"}, stream' = stream \o <<Event(t)>>,
             toolCalls' = toolCalls, pc' # "killed" => pc # "killed",
             pc = "tool" <=> pc' = "tool", pc' \notin Told
      PROVE  Tally'
  <2>1. <<Event(t)>> \in Seq(AgentEvents) /\ \A i \in DOMAIN <<Event(t)>> : <<Event(t)>>[i].type = t
    BY EventsAreTyped DEF Event
  <2>. QED  BY <1>2, <2>1, TallyKept
<1>3. {"started", "context_ready", "text_delta", "heartbeat"} \subseteq Types \ {"tool_call", "tool_result"}
        /\ {"tool_call", "tool_result"} \subseteq Types
  BY DEF Types
<1>4. CASE Accept
  BY <1>2, <1>3, <1>4 DEF Accept, Write, Told, turnVars
<1>5. CASE ContextReady
  BY <1>2, <1>3, <1>5 DEF ContextReady, Write, Told
<1>6. CASE Answer
  <2>1. PICK text \in BOOLEAN :
          LET said == IF text THEN <<Event("text_delta")>> ELSE << >> IN
          \/ pc' = "closing" /\ stream' = stream \o (said \o Tell(toolCalls))
          \/ pc' = "tools" /\ stream' = stream \o said
    BY <1>6 DEF Answer, Write
  <2>. DEFINE said == IF text THEN <<Event("text_delta")>> ELSE << >>
              told == said \o Tell(toolCalls)
  <2>2. said \in Seq(AgentEvents) /\ Tell(toolCalls) \in Seq(AgentEvents) /\ Len(said) \in Nat
    BY <1>1, <1>3, EventsAreTyped
  <2>3. \A i \in DOMAIN said : said[i].type \notin {"tool_call", "tool_result"}
    BY DEF Event
  <2>4. pc = "model" /\ toolCalls' = toolCalls
    BY <1>6 DEF Answer
  <2>. HIDE DEF said
  <2>5. /\ told \in Seq(AgentEvents) /\ Len(told) = Len(said) + 2
        /\ \A i \in DOMAIN said : told[i] = said[i]
        /\ \A i \in {1, 2} : told[Len(said) + i] = Tell(toolCalls)[i]
        /\ DOMAIN told = DOMAIN said \cup {Len(said) + 1, Len(said) + 2}
    <3>1. Len(Tell(toolCalls)) = 2 /\ DOMAIN Tell(toolCalls) = {1, 2}
      BY DEF Tell
    <3>2. /\ told \in Seq(AgentEvents) /\ Len(told) = Len(said) + Len(Tell(toolCalls))
          /\ \A i \in DOMAIN said : told[i] = said[i]
          /\ \A i \in DOMAIN Tell(toolCalls) : told[Len(said) + i] = Tell(toolCalls)[i]
      BY <2>2, Written
    <3>3. DOMAIN told = DOMAIN said \cup {Len(said) + 1, Len(said) + 2}
      <4>1. DOMAIN told = 1 .. Len(told) /\ DOMAIN said = 1 .. Len(said)
        BY <2>2, <3>2
      <4>. HIDE DEF told
      <4>. QED  BY <2>2, <3>1, <3>2, <4>1
    <3>. HIDE DEF told
    <3>. QED  BY <3>1, <3>2, <3>3
  <2>. HIDE DEF told
  <2>6. \A i \in DOMAIN told : told[i].type \notin {"tool_call", "tool_result"}
    BY <2>2, <2>3, <2>5, OtherTypes
  <2>7. Len(told) >= 2 /\ told[Len(told)].count = toolCalls
    <3>1. told[Len(said) + 2] = Tell(toolCalls)[2]
      BY <2>5
    <3>. QED  BY <2>2, <2>5, <3>1, OtherTypes
  <2>8. CASE pc' = "closing" /\ stream' = stream \o told
    BY <2>4, <2>5, <2>6, <2>7, <2>8, TallyKept
  <2>9. CASE pc' = "tools" /\ stream' = stream \o said
    BY <2>2, <2>3, <2>4, <2>9, TallyKept DEF Told
  <2>. QED  BY <2>1, <2>8, <2>9 DEF said, told
<1>7. CASE CallTool
  <2>1. CASE Head(todo) \in Tools
    <3>1. /\ pc = "tools" /\ pc' = "tool" /\ toolCalls' = toolCalls + 1
          /\ stream' = stream \o <<Event("tool_call")>>
      BY <1>7, <2>1 DEF CallTool, Counted, Write
    <3>2. Number(stream', "tool_call") = Number(stream, "tool_call") + 1
      BY <1>1, <1>3, <3>1, NumberMore
    <3>3. Number(stream', "tool_result") = Number(stream, "tool_result")
      <4>1. <<Event("tool_call")>> \in Seq(AgentEvents)
              /\ \A i \in DOMAIN <<Event("tool_call")>> : <<Event("tool_call")>>[i].type # "tool_result"
        BY <1>3, EventsAreTyped DEF Event
      <4>. QED  BY <1>1, <3>1, <4>1, NumberSame
    <3>4. /\ toolCalls = Number(stream, "tool_call")
          /\ Number(stream, "tool_call") = Number(stream, "tool_result") + 0
      BY <3>1 DEF Tally
    <3>5. Number(stream, "tool_result") \in Nat
      BY <1>1, PlacesAreFinite
    <3>6. /\ toolCalls' = Number(stream', "tool_call")
          /\ Number(stream', "tool_call") = Number(stream', "tool_result") + 1
      BY <3>1, <3>2, <3>3, <3>4, <3>5
    <3>. QED  BY <3>1, <3>6 DEF Tally, Told
  <2>2. CASE Head(todo) \notin Tools
    BY <1>7, <2>2 DEF CallTool, Tally
  <2>. QED  BY <2>1, <2>2
<1>8. CASE ToolEnds
  <2>1. /\ pc = "tool" /\ pc' = "tools" /\ toolCalls' = toolCalls
        /\ stream' = stream \o <<Event("tool_result")>>
    BY <1>8 DEF ToolEnds, Write
  <2>2. Number(stream', "tool_result") = Number(stream, "tool_result") + 1
    BY <1>1, <1>3, <2>1, NumberMore
  <2>3. Number(stream', "tool_call") = Number(stream, "tool_call")
    <3>1. <<Event("tool_result")>> \in Seq(AgentEvents)
            /\ \A i \in DOMAIN <<Event("tool_result")>> : <<Event("tool_result")>>[i].type # "tool_call"
      BY <1>3, EventsAreTyped DEF Event
    <3>. QED  BY <1>1, <2>1, <3>1, NumberSame
  <2>4. /\ toolCalls = Number(stream, "tool_call")
        /\ Number(stream, "tool_call") = Number(stream, "tool_result") + 1
    BY <2>1 DEF Tally
  <2>5. Number(stream, "tool_result") \in Nat
    BY <1>1, PlacesAreFinite
  <2>6. /\ toolCalls' = Number(stream', "tool_call")
        /\ Number(stream', "tool_call") = Number(stream', "tool_result") + 0
    BY <2>1, <2>2, <2>3, <2>4, <2>5
  <2>. QED  BY <2>1, <2>6 DEF Tally, Told
<1>9. CASE ToolsDone
  <2>1. CASE pc' = "model" /\ stream' = stream
    BY <1>9, <2>1 DEF ToolsDone, Tally, Told
  <2>2. CASE pc' = "closing" /\ stream' = stream \o Tell(toolCalls)
    <3>1. /\ Tell(toolCalls) \in Seq(AgentEvents) /\ Len(Tell(toolCalls)) = 2
          /\ \A i \in DOMAIN Tell(toolCalls) : Tell(toolCalls)[i].type \notin {"tool_call", "tool_result"}
          /\ Tell(toolCalls)[Len(Tell(toolCalls))].count = toolCalls
      BY <1>1, EventsAreTyped DEF Tell, Event
    <3>2. pc = "tools" /\ pc' = "closing" /\ toolCalls' = toolCalls
      BY <1>9, <2>2 DEF ToolsDone
    <3>3. /\ pc' # "killed" => pc # "killed"
          /\ pc = "tool" <=> pc' = "tool"
          /\ Len(Tell(toolCalls)) >= 2
      BY <3>1, <3>2
    <3>. QED  BY <2>2, <3>1, <3>2, <3>3, TallyKept
  <2>. QED  BY <1>9, <2>1, <2>2 DEF ToolsDone, Write
<1>10. CASE Throw
  <2>. DEFINE said == <<Event("error"), Event("done")>>
  <2>1. /\ said \in Seq(AgentEvents) /\ Len(said) = 2
        /\ \A i \in DOMAIN said : said[i].type \notin {"tool_call", "tool_result"}
        /\ said[Len(said) - 1].type # "final"
    BY EventsAreTyped DEF Event
  <2>2. stream' = stream \o said /\ pc' = "closing" /\ toolCalls' = toolCalls /\ pc \notin {"tool", "killed"}
    BY <1>10 DEF Throw, Write, Boundary, turnVars
  <2>. HIDE DEF said
  <2>3. pc' # "tool" /\ pc # "tool" /\ pc # "killed" /\ Len(said) >= 2
    BY <2>1, <2>2
  <2>. QED  BY <2>1, <2>2, <2>3, TallyKept
<1>11. CASE Heartbeat
  <2>1. /\ pc' = pc /\ toolCalls' = toolCalls /\ stream' = stream \o <<Event("heartbeat")>>
        /\ pc \notin Told
    BY <1>11 DEF Heartbeat, Write, turnVars, Ending
  <2>. QED  BY <1>2, <1>3, <2>1
<1>12. CASE Request \/ Close \/ Killed
  BY <1>12 DEF Request, Close, Killed, Tally, Told, turnVars
<1>13. CASE UNCHANGED vars
  BY <1>13 DEF vars, turnVars, Tally
<1>. QED  BY <1>4, <1>5, <1>6, <1>7, <1>8, <1>9, <1>10, <1>11, <1>12, <1>13 DEF Next, Step

\* Every call told has its result told before the run is over, and a run that ends well counts
\* just these calls, whatever the model asks for and whichever tools fail.
THEOREM CallsAreTold == Spec => []CallsTold
<1>1. Init => Ending /\ Tally
  <2>. SUFFICES ASSUME Init PROVE Ending /\ Tally  OBVIOUS
  <2>1. \A t : Number(<< >>, t) = 0
    BY FS_EmptySet DEF Number, Places
  <2>. QED  BY <2>1 DEF Init, Ending, Told, Plain, Tally
<1>2. TypeOK /\ Ending /\ Tally => CallsTold
  <2>. SUFFICES ASSUME TypeOK, Ending, Tally PROVE CallsTold  OBVIOUS
  <2>1. stream \in Seq(AgentEvents)
    BY DEF TypeOK, AgentEvents
  <2>2. \A t : At(t) = Places(stream, t) /\ Cardinality(At(t)) = Number(stream, t)
    BY DEF At, Places, Number
  <2>3. Number(stream, "tool_result") \in Nat
    BY <2>1, PlacesAreFinite
  <2>4. pc \notin {"tool", "killed"} => Cardinality(At("tool_call")) = Cardinality(At("tool_result"))
    BY <2>2, <2>3 DEF Tally
  <2>5. ASSUME NEW i \in At("final") PROVE stream[i + 1].count = Cardinality(At("tool_result"))
    <3>1. i \in DOMAIN stream /\ stream[i].type = "final"
      BY <2>5 DEF At
    <3>2. pc \in Told /\ i = Len(stream) - 1
      BY <3>1 DEF Ending, Plain, Ended, Verdicts
    <3>3. i + 1 = Len(stream)
      BY <2>1, <3>1, <3>2
    <3>. QED  BY <2>2, <3>1, <3>2, <3>3 DEF Tally
  <2>. QED  BY <2>4, <2>5 DEF CallsTold
<1>. QED  BY <1>1, <1>2, TypeCorrect, EndingNext, TallyNext, PTL DEF Spec
---------------------------------------------------------------------------
(* The bank sync.                                                          *)

AtHand == {"balance", "upsert", "foreign"}
Before == {"idle", "mark", "load"}
Left   == {"catch", "ended", "dead"}

\* The account whose answer is being stored.
InHand(r) == IF phase[r] \in AtHand THEN {job[r].acct} ELSE {}

\* One result for each of the accounts A.
OneEach(R, A) ==
  /\ IsFiniteSet(R)
  /\ {x.acct : x \in R} = A
  /\ \A x, y \in R : x.acct = y.acct => x = y

\* Accounts without a result are those still to do and the one at hand, until the run is left.
Processed(r) ==
  /\ phase[r] \in Before => /\ loaded[r] = {} /\ remaining[r] = {}
                            /\ accountResults[r] = {} /\ outcomes[r] = {}
  /\ remaining[r] \subseteq loaded[r]
  /\ InHand(r) \subseteq loaded[r] \ remaining[r]
  /\ phase[r] \notin Left => OneEach(accountResults[r], loaded[r] \ (remaining[r] \cup InHand(r)))

\* What is recorded when the run is completed is all there is.
Completed(r) ==
  /\ phase[r] = "complete" => remaining[r] = {} /\ outcomes[r] = accountResults[r]
  /\ row[r].status = "completed" =>
       /\ phase[r] \in Left
       /\ OneEach(outcomes[r], loaded[r])
       /\ row[r].total = Cardinality(outcomes[r])
       /\ row[r].total = row[r].success + row[r].error + row[r].empty
       /\ row[r].success = Recorded(r, {"success"})

\* Balances said to be updated are, in the results and in what is made of an answer.
Updated(r) ==
  /\ \A x \in accountResults[r] \cup outcomes[r] : x.updated => <<r, x.acct>> \in written
  /\ phase[r] = "upsert" /\ job[r].balance => <<r, job[r].acct>> \in written

Final == {"done", "done-failed"}
Silent(s, E) == \A i \in DOMAIN s : s[i] \notin E

\* The final event is the last one, and a run without an error until then is completed.
Heeded(r) ==
  /\ phase[r] # "ended" => Silent(response[r], Final)
  /\ phase[r] \notin Left => Silent(response[r], {"error"})
  /\ phase[r] = "ended" =>
       /\ \A i \in DOMAIN response[r] : response[r][i] \in Final => i = Len(response[r])
       /\ \/ Silent(response[r], {"done"})
          \/ Silent(response[r], {"error"}) /\ row[r].status = "completed"

RunsInv == \A r \in Runs : Processed(r) /\ Completed(r) /\ Updated(r) /\ Heeded(r)
Statuses == {"none", "queued", "running", "completed", "failed"}
Phases   == {"idle", "mark", "load", "accounts", "balance", "upsert", "foreign",
             "complete", "catch", "ended", "dead"}
RowType  == [status : Statuses, total : Nat, success : Nat, error : Nat, empty : Nat]

\* How an action of run r moves on.
Moved(r, to, events) ==
  /\ phase' = [phase EXCEPT ![r] = to]
  /\ \/ response' = response
     \/ \E e \in events : response' = [response EXCEPT ![r] = Append(@, e)]

LEMMA CommittedMoves ==
  ASSUME NEW r, NEW to, NEW event, Committed(r, to, event)
  PROVE  Moved(r, to, {event}) \/ Moved(r, "catch", {"error"})
BY Zenon DEF Committed, Moved, Become, Say

LEMMA MovedTypes ==
  ASSUME NEW r \in Runs, NEW to \in Phases, NEW events \in SUBSET Events, SyncTypeOK,
         Moved(r, to, events)
  PROVE  phase' \in [Runs -> Phases] /\ response' \in [Runs -> Seq(Events)]
<1>1. phase \in [Runs -> Phases] /\ response \in [Runs -> Seq(Events)]
  BY DEF SyncTypeOK, Phases
<1>2. ASSUME NEW e \in events PROVE Append(response[r], e) \in Seq(Events)
  BY <1>1
<1>. QED  BY <1>1, <1>2 DEF Moved

\* Typed results stay so when one is added.
LEMMA ReportTypes ==
  ASSUME NEW r \in Runs, NEW a \in Accounts, NEW outcome \in Outcome, NEW updated \in BOOLEAN,
         NEW call, updated => call \in Nat, SyncTypeOK, Report(r, a, outcome, updated, call)
  PROVE  accountResults' \in [Runs -> SUBSET Result]
<1>1. accountResults \in [Runs -> SUBSET Result]
  BY DEF SyncTypeOK
<1>2. [acct |-> a, outcome |-> outcome, updated |-> updated, current |-> IF updated THEN call ELSE None]
        \in Result
  BY DEF Result
<1>. QED  BY <1>1, <1>2 DEF Report

\* Where an answer is at hand it is one of CODEF's.
JobTyped ==
  \A r \in Runs : phase[r] \in AtHand =>
    job[r] \in CodefAnswer /\ (phase[r] = "foreign" <=> job[r].acct \in Foreign)

LEMMA OutcomeTyped ==
  ASSUME NEW q PROVE OutcomeOf(q) \in Outcome
BY DEF OutcomeOf, Outcome

LEMMA JobKept ==
  ASSUME SyncTypeOK, NEW r \in Runs, NEW to \in Phases, phase' = [phase EXCEPT ![r] = to],
         job' = job,
         to \in AtHand => phase[r] \in AtHand /\ (phase[r] = "foreign" <=> to = "foreign")
  PROVE  JobTyped'
BY DEF SyncTypeOK, JobTyped, AtHand, Phases

\* A row whose status is set is a row.
LEMMA StatusSet ==
  ASSUME NEW r \in Runs, NEW s \in Statuses, row \in [Runs -> RowType],
         row' = [row EXCEPT ![r].status = s]
  PROVE  row' \in [Runs -> RowType]
<1>1. [row[r] EXCEPT !.status = s] \in RowType
  <2>1. row[r] \in RowType
    OBVIOUS
  <2>. QED  BY <2>1, Zenon DEF RowType
<1>. QED  BY <1>1, Zenon

\* Counters of finitely many results are numbers.
LEMMA CountsAreNumbers ==
  ASSUME NEW r, IsFiniteSet(accountResults[r])
  PROVE  \A O : Count(r, O) \in Nat
BY FS_Subset, FS_CardinalityType DEF Count

LEMMA SyncTypeInit == SyncInit => SyncTypeOK
<1>. SUFFICES ASSUME SyncInit PROVE SyncTypeOK  OBVIOUS
<1>1. << >> \in Seq(Events)
  BY EmptySeq
<1>. QED  BY <1>1 DEF SyncInit, SyncTypeOK

LEMMA SyncTypeNext == SyncTypeOK /\ RunsInv /\ [SyncNext]_syncVars => SyncTypeOK'
<1>. SUFFICES ASSUME SyncTypeOK, RunsInv, [SyncNext]_syncVars PROVE SyncTypeOK'  OBVIOUS
<1>. USE DEF AtHand
<1>1. /\ row \in [Runs -> RowType] /\ outcomes \in [Runs -> SUBSET Result]
      /\ balance \in [Accounts -> Nat] /\ written \subseteq Runs \X Accounts /\ calls \in Nat
      /\ phase \in [Runs -> Phases]
      /\ loaded \in [Runs -> SUBSET Accounts] /\ remaining \in [Runs -> SUBSET Accounts]
      /\ job \in [Runs -> CodefAnswer \cup {None}] /\ accountResults \in [Runs -> SUBSET Result]
      /\ response \in [Runs -> Seq(Events)] /\ JobTyped
  BY DEF SyncTypeOK, RowType, Statuses, Phases, JobTyped
<1>2. ASSUME /\ row' \in [Runs -> RowType] /\ outcomes' \in [Runs -> SUBSET Result]
             /\ balance' \in [Accounts -> Nat] /\ written' \subseteq Runs \X Accounts /\ calls' \in Nat
             /\ phase' \in [Runs -> Phases]
             /\ loaded' \in [Runs -> SUBSET Accounts] /\ remaining' \in [Runs -> SUBSET Accounts]
             /\ job' \in [Runs -> CodefAnswer \cup {None}] /\ accountResults' \in [Runs -> SUBSET Result]
             /\ response' \in [Runs -> Seq(Events)] /\ JobTyped'
      PROVE  SyncTypeOK'
  BY <1>2 DEF SyncTypeOK, RowType, Statuses, Phases, JobTyped
<1>3. CASE UNCHANGED syncVars
  BY <1>3 DEF syncVars, db, local, SyncTypeOK
<1>4. ASSUME NEW r \in Runs, Create(r) \/ SyncStep(r) \/ HandlerThrows(r) \/ Kill(r)
      PROVE  SyncTypeOK'
  <2>1. ASSUME NEW to \in Phases \ AtHand, NEW e \in Events \cup {None}, Committed(r, to, e), job' = job
        PROVE  phase' \in [Runs -> Phases] /\ response' \in [Runs -> Seq(Events)] /\ JobTyped'
    <3>1. Moved(r, to, {e} \cap Events) \/ Moved(r, "catch", {"error"})
      BY <2>1, Zenon DEF Committed, Moved, Become, Say
    <3>2. "catch" \in Phases \ AtHand /\ "error" \in Events
      BY DEF Phases, Events
    <3>3. phase' \in [Runs -> Phases] /\ response' \in [Runs -> Seq(Events)]
      BY <3>1, <3>2, MovedTypes
    <3>4. JobTyped'
      BY <2>1, <3>1, <3>2, JobKept DEF Moved
    <3>. QED  BY <3>3, <3>4
  <2>2. ASSUME NEW to \in Phases, NEW e \in Events, Become(r, to), Say(r, e) \/ UNCHANGED response
        PROVE  phase' \in [Runs -> Phases] /\ response' \in [Runs -> Seq(Events)]
    <3>1. Moved(r, to, {e})
      BY <2>2, Zenon DEF Moved, Become, Say
    <3>. QED  BY <2>2, <3>1, MovedTypes
  <2>3. ASSUME NEW to \in Phases \ AtHand, Become(r, to), job' = job PROVE JobTyped'
    BY <2>3, JobKept DEF Become
  <2>4. CASE Create(r)
    <3>1. row' \in [Runs -> RowType]
      BY <1>1, <2>4, StatusSet DEF Create, Statuses
    <3>2. "mark" \in Phases \ AtHand /\ "run-started" \in Events
      BY DEF Phases, Events
    <3>3. phase' \in [Runs -> Phases] /\ response' \in [Runs -> Seq(Events)] /\ JobTyped'
      BY <2>1, <2>4, <3>2 DEF Create, local
    <3>. QED  BY <1>1, <1>2, <2>4, <3>1, <3>3 DEF Create, local
  <2>5. CASE MarkRunning(r)
    <3>1. row' \in [Runs -> RowType]
      <4>1. (IF row[r].status = "queued" THEN "running" ELSE row[r].status) \in Statuses
        BY <1>1 DEF RowType, Statuses
      <4>. QED  BY <1>1, <2>5, <4>1, StatusSet, Zenon DEF MarkRunning
    <3>2. "load" \in Phases \ AtHand
      BY DEF Phases
    <3>3. phase' \in [Runs -> Phases] /\ response' \in [Runs -> Seq(Events)] /\ JobTyped'
      BY <2>1, <2>5, <3>2 DEF MarkRunning, local
    <3>. QED  BY <1>1, <1>2, <2>5, <3>1, <3>3 DEF MarkRunning, local
  <2>6. CASE LoadAccounts(r)
    <3>1. PICK A \in SUBSET Accounts :
            /\ loaded' = [loaded EXCEPT ![r] = A] /\ remaining' = [remaining EXCEPT ![r] = A]
            /\ Become(r, IF A = {} THEN "complete" ELSE "accounts")
      BY <2>6 DEF LoadAccounts
    <3>2. {"complete", "accounts"} \subseteq Phases \ AtHand /\ "error" \in Events
      BY DEF Phases, Events
    <3>3. phase' \in [Runs -> Phases] /\ response' \in [Runs -> Seq(Events)] /\ JobTyped'
      BY <2>2, <2>3, <2>6, <3>1, <3>2 DEF LoadAccounts
    <3>. QED  BY <1>1, <1>2, <2>6, <3>1, <3>3 DEF LoadAccounts, db
  <2>7. ASSUME NEW a \in Accounts, CallCodef(r, a) PROVE SyncTypeOK'
    <3>1. remaining' \in [Runs -> SUBSET Accounts] /\ UNCHANGED <<db, loaded>>
      BY <1>1, <2>7 DEF CallCodef
    <3>2. CASE /\ \E o \in {"no_connection", "codef_error"} : Report(r, a, o, FALSE, None)
               /\ Say(r, "account") /\ UNCHANGED <<calls, phase, job>>
      <4>1. accountResults' \in [Runs -> SUBSET Result]
        BY <2>7, <3>2, ReportTypes DEF Outcome
      <4>2. response' \in [Runs -> Seq(Events)]
        BY <1>1, <3>2 DEF Say, Events
      <4>3. JobTyped'
        BY <1>1, <3>2 DEF JobTyped
      <4>. QED  BY <1>1, <1>2, <3>1, <3>2, <4>1, <4>2, <4>3 DEF db
    <3>3. CASE /\ calls' = calls + 1
               /\ \E b, t \in BOOLEAN :
                    job' = [job EXCEPT ![r] = [acct |-> a, call |-> calls + 1, balance |-> b, txs |-> t]]
               /\ Become(r, Path(a)) /\ UNCHANGED <<accountResults, response>>
      <4>1. PICK b \in BOOLEAN, t \in BOOLEAN :
              job' = [job EXCEPT ![r] = [acct |-> a, call |-> calls + 1, balance |-> b, txs |-> t]]
        BY <3>3
      <4>2. [acct |-> a, call |-> calls + 1, balance |-> b, txs |-> t] \in CodefAnswer
        BY <1>1, <2>7 DEF CodefAnswer
      <4>3. job' \in [Runs -> CodefAnswer \cup {None}]
        BY <1>1, <4>1, <4>2
      <4>4. Path(a) \in Phases /\ (Path(a) = "foreign" <=> a \in Foreign)
        BY DEF Path, Phases
      <4>5. phase' \in [Runs -> Phases]
        BY <1>1, <3>3, <4>4 DEF Become
      <4>6. ASSUME NEW s \in Runs, phase'[s] \in AtHand
            PROVE  job'[s] \in CodefAnswer /\ (phase'[s] = "foreign" <=> job'[s].acct \in Foreign)
        <5>1. CASE s = r
          BY <1>1, <3>3, <4>1, <4>2, <4>4, <5>1 DEF Become
        <5>2. CASE s # r
          BY <1>1, <3>3, <4>1, <4>6, <5>2 DEF Become, JobTyped
        <5>. QED  BY <5>1, <5>2
      <4>. QED  BY <1>1, <1>2, <3>1, <3>3, <4>3, <4>5, <4>6 DEF db, JobTyped
    <3>. QED  BY <2>7, <3>2, <3>3 DEF CallCodef
  <2>8. ASSUME SetBalance(r), phase[r] \in AtHand
        PROVE  balance' \in [Accounts -> Nat] /\ written' \subseteq Runs \X Accounts
    <3>1. job[r].acct \in Accounts /\ job[r].call \in Nat
      BY <1>1, <2>8 DEF JobTyped, CodefAnswer
    <3>. QED  BY <1>1, <2>8, <3>1 DEF SetBalance
  <2>9. ASSUME phase[r] \in AtHand, ReportStored(r)
        PROVE  accountResults' \in [Runs -> SUBSET Result]
    <3>1. job[r].acct \in Accounts /\ job[r].call \in Nat /\ job[r].balance \in BOOLEAN
      BY <1>1, <2>9 DEF JobTyped, CodefAnswer
    <3>. QED  BY <2>9, <3>1, OutcomeTyped, ReportTypes DEF ReportStored, BalanceUpdated
  <2>10. CASE UpdateBalance(r)
    <3>1. phase[r] = "balance" /\ "upsert" \in Phases /\ "catch" \in Phases \ AtHand /\ "error" \in Events
      BY <2>10 DEF UpdateBalance, In, Phases, Events
    <3>2. balance' \in [Accounts -> Nat] /\ written' \subseteq Runs \X Accounts
      BY <1>1, <2>8, <2>10, <3>1 DEF UpdateBalance
    <3>3. (Become(r, "upsert") \/ Become(r, "catch")) /\ job' = job
      BY <2>10 DEF UpdateBalance, Committed, local
    <3>4. UNCHANGED response \/ Say(r, None) \/ Say(r, "error")
      BY <2>10, Zenon DEF UpdateBalance, Committed
    <3>5. UNCHANGED response \/ Say(r, "error")
      BY <2>10, Zenon DEF UpdateBalance, Committed
    <3>6. phase' \in [Runs -> Phases] /\ response' \in [Runs -> Seq(Events)]
      BY <2>2, <3>1, <3>3, <3>5
    <3>7. JobTyped'
      BY <3>1, <3>3, JobKept DEF Become
    <3>. QED  BY <1>1, <1>2, <2>10, <3>2, <3>6, <3>7 DEF UpdateBalance, local
  <2>11. CASE Upsert(r)
    <3>1. /\ phase[r] \in AtHand /\ {"accounts", "catch"} \subseteq Phases \ AtHand
          /\ {"account", "error"} \subseteq Events
      BY <2>11 DEF Upsert, In, Phases, Events
    <3>2. accountResults' \in [Runs -> SUBSET Result]
      BY <1>1, <2>9, <2>11, <3>1 DEF Upsert
    <3>3. phase' \in [Runs -> Phases] /\ response' \in [Runs -> Seq(Events)] /\ JobTyped'
      BY <2>2, <2>3, <2>11, <3>1 DEF Upsert
    <3>. QED  BY <1>1, <1>2, <2>11, <3>2, <3>3 DEF Upsert, db
  <2>12. CASE StoreForeign(r)
    <3>1. phase[r] \in AtHand /\ "accounts" \in Phases \ AtHand /\ "account" \in Events
      BY <2>12 DEF StoreForeign, In, Phases, Events
    <3>2. balance' \in [Accounts -> Nat] /\ written' \subseteq Runs \X Accounts
      BY <1>1, <2>8, <2>12, <3>1 DEF StoreForeign
    <3>3. job[r].acct \in Accounts
      BY <1>1, <3>1 DEF JobTyped, CodefAnswer
    <3>4. Report(r, job[r].acct, "codef_error", FALSE, None) \/ ReportStored(r)
      BY <2>12 DEF StoreForeign
    <3>5. accountResults' \in [Runs -> SUBSET Result]
      BY <2>9, <3>1, <3>3, <3>4, ReportTypes DEF Outcome
    <3>6. phase' \in [Runs -> Phases] /\ response' \in [Runs -> Seq(Events)] /\ JobTyped'
      BY <2>2, <2>3, <2>12, <3>1 DEF StoreForeign
    <3>. QED  BY <1>1, <1>2, <2>12, <3>2, <3>5, <3>6 DEF StoreForeign
  <2>13. CASE ForeignUnheard(r)
    <3>1. phase[r] \in AtHand /\ "catch" \in Phases \ AtHand /\ "error" \in Events
      BY <2>13 DEF ForeignUnheard, In, Phases, Events
    <3>2. balance' \in [Accounts -> Nat] /\ written' \subseteq Runs \X Accounts
      BY <1>1, <2>8, <2>13, <3>1 DEF ForeignUnheard
    <3>3. phase' \in [Runs -> Phases] /\ response' \in [Runs -> Seq(Events)] /\ JobTyped'
      BY <2>2, <2>3, <2>13, <3>1 DEF ForeignUnheard, local
    <3>. QED  BY <1>1, <1>2, <2>13, <3>2, <3>3 DEF ForeignUnheard, local
  <2>14. CASE RecordOutcomes(r)
    <3>1. "complete" \in Phases \ AtHand
      BY DEF Phases
    <3>2. phase' \in [Runs -> Phases] /\ response' \in [Runs -> Seq(Events)] /\ JobTyped'
      BY <2>1, <2>14, <3>1 DEF RecordOutcomes, local
    <3>3. outcomes' \in [Runs -> SUBSET Result]
      BY <1>1, <2>14 DEF RecordOutcomes
    <3>. QED  BY <1>1, <1>2, <2>14, <3>2, <3>3 DEF RecordOutcomes, local
  <2>15. CASE Catch(r)
    <3>0. row' = [row EXCEPT ![r].status = "failed"] \/ row' = row
      BY <2>15, Zenon DEF Catch
    <3>1. row' \in [Runs -> RowType]
      <4>1. CASE row' = [row EXCEPT ![r].status = "failed"]
        BY <1>1, <4>1, StatusSet DEF Statuses
      <4>. QED  BY <1>1, <3>0, <4>1
    <3>2. "ended" \in Phases \ AtHand /\ "done-failed" \in Events
      BY DEF Phases, Events
    <3>3. phase' \in [Runs -> Phases] /\ response' \in [Runs -> Seq(Events)] /\ JobTyped'
      BY <2>2, <2>3, <2>15, <3>2 DEF Catch, SayFailed, local
    <3>. QED  BY <1>1, <1>2, <2>15, <3>1, <3>3 DEF Catch, local
  <2>16. CASE HandlerThrows(r)
    <3>1. "catch" \in Phases \ AtHand /\ "error" \in Events
      BY DEF Phases, Events
    <3>2. phase' \in [Runs -> Phases] /\ response' \in [Runs -> Seq(Events)] /\ JobTyped'
      BY <2>2, <2>3, <2>16, <3>1 DEF HandlerThrows, local
    <3>. QED  BY <1>1, <1>2, <2>16, <3>2 DEF HandlerThrows, db, local
  <2>17. CASE Kill(r)
    <3>1. "dead" \in Phases \ AtHand /\ "error" \in Events
      BY DEF Phases, Events
    <3>2. phase' \in [Runs -> Phases] /\ response' \in [Runs -> Seq(Events)] /\ JobTyped'
      BY <2>2, <2>3, <2>17, <3>1 DEF Kill, local
    <3>. QED  BY <1>1, <1>2, <2>17, <3>2 DEF Kill, db, local
  <2>18. CASE Complete(r)
    <3>1. IsFiniteSet(accountResults[r])
      BY <2>18 DEF Complete, In, RunsInv, Processed, OneEach, Left
    <3>2. \A O : Count(r, O) \in Nat
      BY <3>1, CountsAreNumbers
    <3>3. Cardinality(accountResults[r]) \in Nat
      BY <3>1, FS_CardinalityType
    <3>4. CompletedRow(r) \in RowType
      BY <3>2, <3>3 DEF CompletedRow, RowType, Statuses
    <3>5. row' \in [Runs -> RowType]
      BY <1>1, <2>18, <3>4 DEF Complete
    <3>6. "ended" \in Phases \ AtHand /\ "done" \in Events
      BY DEF Phases, Events
    <3>7. phase' \in [Runs -> Phases] /\ response' \in [Runs -> Seq(Events)] /\ JobTyped'
      BY <2>1, <2>18, <3>6 DEF Complete, local
    <3>. QED  BY <1>1, <1>2, <2>18, <3>5, <3>7 DEF Complete, local
  <2>. QED  BY <1>4, <2>4, <2>5, <2>6, <2>7, <2>10, <2>11, <2>12, <2>13, <2>14, <2>15, <2>16, <2>17, <2>18
            DEF SyncStep
<1>. QED  BY <1>3, <1>4 DEF SyncNext
---------------------------------------------------------------------------
\* A run that takes no step is left as it was; what is written stays written.
Same(r) ==
  /\ row'[r] = row[r] /\ outcomes'[r] = outcomes[r] /\ phase'[r] = phase[r]
  /\ loaded'[r] = loaded[r] /\ remaining'[r] = remaining[r] /\ job'[r] = job[r]
  /\ accountResults'[r] = accountResults[r] /\ response'[r] = response[r]
  /\ written \subseteq written'

RunInv(r) == Processed(r) /\ Completed(r) /\ Updated(r) /\ Heeded(r)
RunAction(r) == Create(r) \/ SyncStep(r) \/ HandlerThrows(r) \/ Kill(r)

LEMMA SameKeeps ==
  ASSUME NEW r \in Runs, Same(r), RunInv(r)
  PROVE  RunInv(r)'
<1>1. Processed(r)'
  BY DEF Same, RunInv, Processed, InHand
<1>2. Completed(r)'
  BY DEF Same, RunInv, Completed, Recorded
<1>3. Updated(r)'
  BY DEF Same, RunInv, Updated
<1>4. Heeded(r)'
  BY DEF Same, RunInv, Heeded
<1>. QED  BY <1>1, <1>2, <1>3, <1>4 DEF RunInv

LEMMA OthersStay ==
  ASSUME SyncTypeOK, NEW r \in Runs, RunAction(r), NEW s \in Runs \ {r}
  PROVE  Same(s)
<1>1. /\ DOMAIN row = Runs /\ DOMAIN outcomes = Runs /\ DOMAIN phase = Runs /\ DOMAIN loaded = Runs
      /\ DOMAIN remaining = Runs /\ DOMAIN job = Runs /\ DOMAIN accountResults = Runs
      /\ DOMAIN response = Runs
  BY DEF SyncTypeOK
<1>2. ASSUME NEW to, Become(r, to) PROVE phase'[s] = phase[s]
  BY <1>1, <1>2 DEF Become
<1>3. ASSUME NEW e, Say(r, e) PROVE response'[s] = response[s]
  BY <1>1, <1>3 DEF Say
<1>4. ASSUME NEW to, NEW e, Committed(r, to, e)
      PROVE  phase'[s] = phase[s] /\ response'[s] = response[s]
  BY <1>2, <1>3, <1>4, Zenon DEF Committed
<1>5. ASSUME NEW a, NEW o, NEW u, NEW c, Report(r, a, o, u, c) PROVE accountResults'[s] = accountResults[s]
  BY <1>1, <1>5 DEF Report
<1>6. CASE Create(r)
  BY <1>1, <1>4, <1>6 DEF Create, Same, local
<1>7. CASE MarkRunning(r)
  BY <1>1, <1>4, <1>7 DEF MarkRunning, Same, local
<1>8. CASE LoadAccounts(r)
  BY <1>1, <1>2, <1>8 DEF LoadAccounts, Same, db
<1>9. ASSUME NEW a, CallCodef(r, a) PROVE Same(s)
  <2>1. remaining'[s] = remaining[s] /\ UNCHANGED <<db, loaded>>
    BY <1>1, <1>9 DEF CallCodef
  <2>2. accountResults'[s] = accountResults[s] /\ response'[s] = response[s]
    BY <1>3, <1>5, <1>9, Zenon DEF CallCodef
  <2>3. phase'[s] = phase[s] /\ job'[s] = job[s]
    BY <1>1, <1>2, <1>9 DEF CallCodef
  <2>. QED  BY <2>1, <2>2, <2>3 DEF Same, db
<1>10. ASSUME SetBalance(r) PROVE written \subseteq written'
  BY <1>10 DEF SetBalance
<1>11. CASE UpdateBalance(r)
  <2>1. phase'[s] = phase[s] /\ response'[s] = response[s]
    BY <1>2, <1>4, <1>11, Zenon DEF UpdateBalance
  <2>. QED  BY <1>10, <1>11, <2>1 DEF UpdateBalance, Same, local
<1>12. CASE Upsert(r)
  <2>1. phase'[s] = phase[s] /\ response'[s] = response[s]
    BY <1>2, <1>3, <1>12, Zenon DEF Upsert
  <2>2. accountResults'[s] = accountResults[s]
    BY <1>5, <1>12, Zenon DEF Upsert, ReportStored
  <2>. QED  BY <1>12, <2>1, <2>2 DEF Upsert, Same, db
<1>13. CASE StoreForeign(r)
  <2>1. phase'[s] = phase[s] /\ response'[s] = response[s]
    BY <1>2, <1>3, <1>13, Zenon DEF StoreForeign
  <2>2. accountResults'[s] = accountResults[s]
    BY <1>5, <1>13, Zenon DEF StoreForeign, ReportStored
  <2>3. written \subseteq written'
    BY <1>10, <1>13 DEF StoreForeign
  <2>. QED  BY <1>13, <2>1, <2>2, <2>3 DEF StoreForeign, Same
<1>14. CASE ForeignUnheard(r)
  <2>1. phase'[s] = phase[s] /\ response'[s] = response[s]
    BY <1>2, <1>3, <1>14, Zenon DEF ForeignUnheard
  <2>. QED  BY <1>10, <1>14, <2>1 DEF ForeignUnheard, Same, local
<1>15. CASE RecordOutcomes(r)
  BY <1>1, <1>4, <1>15 DEF RecordOutcomes, Same, local
<1>16. CASE Complete(r)
  BY <1>1, <1>4, <1>16 DEF Complete, Same, local
<1>17. CASE Catch(r)
  <2>1. phase'[s] = phase[s] /\ response'[s] = response[s]
    BY <1>2, <1>3, <1>17, Zenon DEF Catch, SayFailed
  <2>2. row'[s] = row[s]
    BY <1>1, <1>17 DEF Catch
  <2>. QED  BY <1>17, <2>1, <2>2 DEF Catch, Same, local
<1>18. CASE HandlerThrows(r) \/ Kill(r)
  BY <1>2, <1>3, <1>18, Zenon DEF HandlerThrows, Kill, Same, db, local
<1>. QED  BY <1>6, <1>7, <1>8, <1>9, <1>11, <1>12, <1>13, <1>14, <1>15, <1>16, <1>17, <1>18
          DEF RunAction, SyncStep

\* One more result, of another account.
LEMMA OneMore ==
  ASSUME NEW R, NEW A, OneEach(R, A), NEW x, x.acct \notin A
  PROVE  OneEach(R \cup {x}, A \cup {x.acct})
<1>1. IsFiniteSet(R \cup {x})
  BY FS_AddElement DEF OneEach
<1>. QED  BY <1>1 DEF OneEach

\* What has nothing in common is counted apart.
LEMMA Apart ==
  ASSUME NEW S, NEW T, IsFiniteSet(S), IsFiniteSet(T), S \cap T = {}
  PROVE  IsFiniteSet(S \cup T) /\ Cardinality(S \cup T) = Cardinality(S) + Cardinality(T)
<1>1. Cardinality(S) \in Nat /\ Cardinality(T) \in Nat /\ Cardinality(S \cap T) = 0
  BY FS_CardinalityType, FS_EmptySet
<1>2. IsFiniteSet(S \cup T) /\ Cardinality(S \cup T) = Cardinality(S) + Cardinality(T) - Cardinality(S \cap T)
  BY FS_Union
<1>. QED  BY <1>1, <1>2

\* The five outcomes are counted in three counters.
LEMMA CountersAddUp ==
  ASSUME NEW R \in SUBSET Result, IsFiniteSet(R)
  PROVE  LET N(O) == Cardinality({x \in R : x.outcome \in O}) IN
         Cardinality(R) = N({"success"}) + N({"codef_error", "no_connection"})
                            + N({"empty_result", "balance_only"})
<1>. DEFINE T(O) == {x \in R : x.outcome \in O}
            A == T({"success"})
            B == T({"codef_error", "no_connection"})
            C == T({"empty_result", "balance_only"})
<1>1. \A x \in R : x.outcome \in Outcome
  BY DEF Result
<1>2. R = (A \cup B) \cup C /\ A \cap B = {} /\ (A \cup B) \cap C = {}
  <2>1. A \cap B = {} /\ (A \cup B) \cap C = {}
    BY SMT
  <2>2. R \subseteq (A \cup B) \cup C
    BY <1>1 DEF Outcome
  <2>. QED  BY <2>1, <2>2
<1>3. IsFiniteSet(A) /\ IsFiniteSet(B) /\ IsFiniteSet(C)
  BY FS_Subset
<1>. HIDE DEF A, B, C
<1>4. IsFiniteSet(A \cup B) /\ Cardinality(A \cup B) = Cardinality(A) + Cardinality(B)
  BY <1>2, <1>3, Apart
<1>5. Cardinality(R) = Cardinality(A \cup B) + Cardinality(C)
  BY <1>2, <1>3, <1>4, Apart
<1>. QED  BY <1>4, <1>5 DEF A, B, C
---------------------------------------------------------------------------
LEMMA SilentAppended ==
  ASSUME NEW s \in Seq(Events), NEW e, NEW E, Silent(s, E), e \notin E
  PROVE  Silent(Append(s, e), E)
BY DEF Silent

\* Until a run is left nothing final is said, and an error only when it is left.
LEMMA HeededOnward ==
  ASSUME SyncTypeOK, NEW r \in Runs, Heeded(r), phase[r] \notin Left,
         NEW to \in Phases \ {"ended"}, NEW E, E \cap Final = {}, to \notin Left => "error" \notin E,
         Moved(r, to, E)
  PROVE  Heeded(r)'
<1>1. /\ phase'[r] = to
      /\ response'[r] = response[r] \/ \E e \in E : response'[r] = Append(response[r], e)
      /\ response[r] \in Seq(Events)
  BY DEF SyncTypeOK, Moved
<1>2. Silent(response[r], Final) /\ Silent(response[r], {"error"})
  BY DEF Heeded, Left
<1>3. Silent(response'[r], Final)
  BY <1>1, <1>2, SilentAppended
<1>4. to \notin Left => Silent(response'[r], {"error"})
  BY <1>1, <1>2, SilentAppended
<1>. QED  BY <1>1, <1>3, <1>4 DEF Heeded

LEMMA HeededCommitted ==
  ASSUME SyncTypeOK, NEW r \in Runs, Heeded(r), phase[r] \notin Left,
         NEW to \in Phases \ Left, NEW e, e \in {None, "run-started"}, Committed(r, to, e)
  PROVE  Heeded(r)'
<1>1. Moved(r, to, {e} \cap {"run-started"}) \/ Moved(r, "catch", {"error"})
  BY Zenon DEF Committed, Moved, Become, Say
<1>. QED  BY <1>1, HeededOnward DEF Phases, Left, Final

\* A run that is left without being completed.
LEMMA Stopped ==
  ASSUME NEW r \in Runs, RunInv(r), phase[r] \notin Left, phase'[r] \in {"catch", "dead"},
         loaded'[r] = loaded[r], remaining'[r] = remaining[r], accountResults'[r] = accountResults[r],
         outcomes'[r] \in {outcomes[r], accountResults[r]}, written \subseteq written',
         row'[r].status # "completed"
  PROVE  Processed(r)' /\ Completed(r)' /\ Updated(r)'
BY DEF RunInv, Processed, Completed, Updated, InHand, Left, Before, AtHand

\* A run that goes on with what it has.
LEMMA Resumed ==
  ASSUME NEW r \in Runs, RunInv(r), phase[r] \notin Left, phase'[r] \in Phases \ (Left \cup {"complete"}),
         phase'[r] \in Before => phase[r] \in Before,
         phase[r] \in AtHand <=> phase'[r] \in AtHand, job'[r] = job[r],
         loaded'[r] = loaded[r], remaining'[r] = remaining[r], accountResults'[r] = accountResults[r],
         outcomes'[r] = outcomes[r], written \subseteq written', row'[r].status # "completed",
         phase'[r] = "upsert" /\ job[r].balance => <<r, job[r].acct>> \in written'
  PROVE  Processed(r)' /\ Completed(r)' /\ Updated(r)'
<1>1. InHand(r)' = InHand(r)
  BY DEF InHand
<1>2. Processed(r)'
  BY <1>1 DEF RunInv, Processed
<1>3. Completed(r)'
  BY DEF RunInv, Completed
<1>4. Updated(r)'
  BY DEF RunInv, Updated
<1>. QED  BY <1>2, <1>3, <1>4

\* The result of the account at hand, or of one that was refused at once.
LEMMA Reported ==
  ASSUME SyncTypeOK, NEW r \in Runs, RunInv(r), phase[r] \in AtHand \cup {"accounts"}, phase'[r] = "accounts",
         NEW x, accountResults'[r] = accountResults[r] \cup {x}, x.acct \in loaded[r],
         loaded'[r] = loaded[r],
         \/ phase[r] = "accounts" /\ x.acct \in remaining[r] /\ remaining'[r] = remaining[r] \ {x.acct}
         \/ phase[r] \in AtHand /\ x.acct = job[r].acct /\ remaining'[r] = remaining[r],
         outcomes'[r] = outcomes[r], written \subseteq written', row'[r] = row[r],
         x.updated => <<r, x.acct>> \in written'
  PROVE  Processed(r)' /\ Completed(r)' /\ Updated(r)'
<1>. DEFINE A == loaded[r] \ (remaining[r] \cup InHand(r))
<1>1. /\ phase[r] \notin Left /\ phase[r] \notin Before
      /\ remaining[r] \subseteq loaded[r] /\ InHand(r) \subseteq loaded[r] \ remaining[r]
      /\ OneEach(accountResults[r], A)
  BY DEF RunInv, Processed, Left, Before, AtHand
<1>2. InHand(r)' = {}
  BY DEF InHand, AtHand
<1>3. /\ x.acct \notin A
      /\ A \cup {x.acct} = loaded'[r] \ (remaining'[r] \cup InHand(r)')
      /\ remaining'[r] \subseteq loaded'[r]
  BY <1>1, <1>2 DEF InHand, AtHand
<1>4. OneEach(accountResults'[r], A \cup {x.acct})
  BY <1>1, <1>3, OneMore
<1>5. Processed(r)'
  <2>1. OneEach(accountResults'[r], loaded'[r] \ (remaining'[r] \cup InHand(r)'))
    BY <1>3, <1>4
  <2>2. phase'[r] \notin Before
    BY DEF Before
  <2>. HIDE DEF A
  <2>. QED  BY <1>2, <1>3, <2>1, <2>2 DEF Processed
<1>6. Completed(r)'
  BY <1>1 DEF RunInv, Completed
<1>7. Updated(r)'
  BY DEF RunInv, Updated
<1>. QED  BY <1>5, <1>6, <1>7

\* What the three counters are of, once the results are recorded.
LEMMA CompletedRowCounts ==
  ASSUME SyncTypeOK, NEW r \in Runs, IsFiniteSet(accountResults[r]), outcomes[r] = accountResults[r]
  PROVE  LET c == CompletedRow(r) IN
         /\ c.total = Cardinality(outcomes[r])
         /\ c.total = c.success + c.error + c.empty
         /\ c.success = Recorded(r, {"success"})
<1>1. accountResults[r] \in SUBSET Result
  BY DEF SyncTypeOK
<1>2. Cardinality(accountResults[r]) =
        Count(r, {"success"}) + Count(r, {"codef_error", "no_connection"})
          + Count(r, {"empty_result", "balance_only"})
  BY <1>1, CountersAddUp DEF Count
<1>3. Count(r, {"success"}) = Recorded(r, {"success"})
  BY DEF Count, Recorded
<1>. QED  BY <1>2, <1>3 DEF CompletedRow

LEMMA RunNext ==
  ASSUME SyncTypeOK, NEW r \in Runs, RunInv(r), RunAction(r)
  PROVE  RunInv(r)'
<1>. SUFFICES Processed(r)' /\ Completed(r)' /\ Updated(r)' /\ Heeded(r)'
  BY DEF RunInv
<1>1. /\ row \in [Runs -> RowType] /\ outcomes \in [Runs -> SUBSET Result]
      /\ phase \in [Runs -> Phases]
      /\ loaded \in [Runs -> SUBSET Accounts] /\ remaining \in [Runs -> SUBSET Accounts]
      /\ job \in [Runs -> CodefAnswer \cup {None}] /\ accountResults \in [Runs -> SUBSET Result]
      /\ response \in [Runs -> Seq(Events)] /\ JobTyped
  BY DEF SyncTypeOK, RowType, Statuses, Phases, JobTyped, AtHand
<1>2. Heeded(r) /\ (phase[r] \notin Left => row[r].status # "completed")
  BY DEF RunInv, Completed
<1>3. ASSUME NEW to, Become(r, to) PROVE phase'[r] = to
  BY <1>1, <1>3 DEF Become
<1>4. ASSUME NEW to, NEW e, Committed(r, to, e) PROVE phase'[r] \in {to, "catch"}
  BY <1>3, <1>4, Zenon DEF Committed
<1>5. ASSUME phase[r] \notin Left, NEW to \in Phases \ {"ended"}, NEW e \in Events \ Final,
             to \notin Left => e # "error", Become(r, to), Say(r, e) \/ UNCHANGED response
      PROVE  Heeded(r)'
  <2>1. Moved(r, to, {e})
    BY <1>5, Zenon DEF Become, Say, Moved
  <2>. QED  BY <1>2, <1>5, <2>1, HeededOnward
<1>6. {"error", "account", "run-started"} \subseteq Events \ Final
  BY DEF Events, Final
<1>7. CASE Create(r)
  <2>1. phase[r] = "idle" /\ phase'[r] \in {"mark", "catch"} /\ row'[r].status = "queued"
    BY <1>1, <1>4, <1>7 DEF Create, In, RowType
  <2>2. Processed(r)' /\ Completed(r)' /\ Updated(r)'
    <3>1. CASE phase'[r] = "mark"
      BY <1>7, <2>1, <3>1, Resumed DEF Create, local, Phases, Left, Before, AtHand
    <3>2. CASE phase'[r] = "catch"
      BY <1>7, <2>1, <3>2, Stopped DEF Create, local, Left
    <3>. QED  BY <2>1, <3>1, <3>2
  <2>3. Heeded(r)'
    BY <1>2, <1>7, <2>1, HeededCommitted DEF Create, Phases, Left
  <2>. QED  BY <2>2, <2>3
<1>8. CASE MarkRunning(r)
  <2>1. phase[r] = "mark" /\ phase'[r] \in {"load", "catch"} /\ row[r].status # "completed"
    BY <1>1, <1>2, <1>4, <1>8 DEF MarkRunning, In, Left
  <2>2. row'[r].status # "completed"
    BY <1>1, <1>8, <2>1 DEF MarkRunning, RowType
  <2>3. Processed(r)' /\ Completed(r)' /\ Updated(r)'
    <3>1. CASE phase'[r] = "load"
      BY <1>8, <2>1, <2>2, <3>1, Resumed DEF MarkRunning, local, Phases, Left, Before, AtHand
    <3>2. CASE phase'[r] = "catch"
      BY <1>8, <2>1, <2>2, <3>2, Stopped DEF MarkRunning, local, Left
    <3>. QED  BY <2>1, <3>1, <3>2
  <2>4. Heeded(r)'
    BY <1>2, <1>8, <2>1, HeededCommitted DEF MarkRunning, Phases, Left
  <2>. QED  BY <2>3, <2>4
<1>9. CASE LoadAccounts(r)
  <2>1. PICK A \in SUBSET Accounts :
          /\ loaded' = [loaded EXCEPT ![r] = A] /\ remaining' = [remaining EXCEPT ![r] = A]
          /\ Become(r, IF A = {} THEN "complete" ELSE "accounts")
    BY <1>9 DEF LoadAccounts
  <2>2. /\ phase[r] = "load" /\ phase'[r] = IF A = {} THEN "complete" ELSE "accounts"
        /\ loaded'[r] = A /\ remaining'[r] = A
        /\ UNCHANGED <<row, outcomes, written, job, accountResults, response>>
    BY <1>1, <1>3, <1>9, <2>1 DEF LoadAccounts, In, db
  <2>3. accountResults[r] = {} /\ outcomes[r] = {} /\ row[r].status # "completed"
    BY <1>2, <2>2 DEF RunInv, Processed, Before, Left
  <2>4. OneEach({}, {})
    BY FS_EmptySet DEF OneEach
  <2>5. Processed(r)'
    BY <2>2, <2>3, <2>4 DEF Processed, InHand, AtHand, Before
  <2>6. Completed(r)' /\ Updated(r)'
    BY <2>2, <2>3 DEF Completed, Updated
  <2>7. Heeded(r)'
    BY <1>5, <1>6, <2>1, <2>2 DEF Phases, Left
  <2>. QED  BY <2>5, <2>6, <2>7
<1>10. ASSUME NEW a \in Accounts, CallCodef(r, a)
       PROVE  Processed(r)' /\ Completed(r)' /\ Updated(r)' /\ Heeded(r)'
  <2>1. /\ phase[r] = "accounts" /\ a \in remaining[r] /\ remaining'[r] = remaining[r] \ {a}
        /\ UNCHANGED <<row, outcomes, written, loaded>>
        /\ remaining[r] \subseteq loaded[r] /\ row[r].status # "completed"
    BY <1>1, <1>2, <1>10 DEF CallCodef, In, db, RunInv, Processed, Left
  <2>2. ASSUME NEW o \in {"no_connection", "codef_error"}, Report(r, a, o, FALSE, None),
               Say(r, "account"), UNCHANGED phase
        PROVE  Processed(r)' /\ Completed(r)' /\ Updated(r)' /\ Heeded(r)'
    <3>. DEFINE x == [acct |-> a, outcome |-> o, updated |-> FALSE, current |-> None]
    <3>1. accountResults'[r] = accountResults[r] \cup {x}
      BY <1>1, <2>2 DEF Report
    <3>2. x.acct = a /\ x.updated = FALSE
      OBVIOUS
    <3>. HIDE DEF x
    <3>3. Processed(r)' /\ Completed(r)' /\ Updated(r)'
      BY <2>1, <2>2, <3>1, <3>2, Reported
    <3>4. Become(r, "accounts")
      BY <1>1, <2>1, <2>2 DEF Become
    <3>. QED  BY <1>5, <1>6, <2>1, <2>2, <3>3, <3>4 DEF Phases, Left
  <2>3. ASSUME NEW b, NEW t,
               job' = [job EXCEPT ![r] = [acct |-> a, call |-> calls + 1, balance |-> b, txs |-> t]],
               Become(r, Path(a)), UNCHANGED <<accountResults, response>>
        PROVE  Processed(r)' /\ Completed(r)' /\ Updated(r)' /\ Heeded(r)'
    <3>1. phase'[r] = Path(a) /\ Path(a) \in {"foreign", "balance"} /\ job'[r].acct = a
      BY <1>1, <1>3, <2>3 DEF Path
    <3>2. InHand(r) = {} /\ InHand(r)' = {a}
      BY <2>1, <3>1 DEF InHand, AtHand
    <3>3. OneEach(accountResults[r], loaded[r] \ (remaining[r] \cup InHand(r)))
      BY <2>1 DEF RunInv, Processed, Left
    <3>4. loaded[r] \ (remaining[r] \cup InHand(r)) = loaded'[r] \ (remaining'[r] \cup InHand(r)')
      BY <2>1, <3>2
    <3>5. OneEach(accountResults'[r], loaded'[r] \ (remaining'[r] \cup InHand(r)'))
      BY <2>3, <3>3, <3>4
    <3>6. remaining'[r] \subseteq loaded'[r] /\ InHand(r)' \subseteq loaded'[r] \ remaining'[r]
      BY <2>1, <3>2
    <3>7. Processed(r)'
      BY <3>1, <3>5, <3>6 DEF Processed, Before
    <3>8. Completed(r)' /\ Updated(r)'
      BY <2>1, <2>3, <3>1 DEF RunInv, Completed, Updated
    <3>. QED  BY <1>5, <1>6, <2>1, <2>3, <3>1, <3>7, <3>8 DEF Phases, Left
  <2>4. \/ \E o \in {"no_connection", "codef_error"} :
             Report(r, a, o, FALSE, None) /\ Say(r, "account") /\ UNCHANGED phase
        \/ \E b, t \in BOOLEAN :
             /\ job' = [job EXCEPT ![r] = [acct |-> a, call |-> calls + 1, balance |-> b, txs |-> t]]
             /\ Become(r, Path(a)) /\ UNCHANGED <<accountResults, response>>
    BY <1>10 DEF CallCodef
  <2>. QED  BY <2>2, <2>3, <2>4
<1>11. ASSUME SetBalance(r) PROVE written \subseteq written' /\ <<r, job[r].acct>> \in written'
  BY <1>11 DEF SetBalance
<1>12. CASE UpdateBalance(r)
  <2>1. /\ phase[r] = "balance" /\ UNCHANGED <<row, outcomes, loaded, remaining, job, accountResults>>
        /\ row[r].status # "completed"
    BY <1>2, <1>12 DEF UpdateBalance, In, local, Left
  <2>2. job[r] \in CodefAnswer /\ written \subseteq written'
    BY <1>1, <1>11, <1>12, <2>1 DEF UpdateBalance, JobTyped, AtHand
  <2>3. \/ phase'[r] = "catch"
        \/ phase'[r] = "upsert" /\ (job[r].balance => <<r, job[r].acct>> \in written')
    BY <1>3, <1>4, <1>11, <1>12, <2>2 DEF UpdateBalance, CodefAnswer
  <2>4. Processed(r)' /\ Completed(r)' /\ Updated(r)'
    <3>1. CASE phase'[r] = "upsert" /\ (job[r].balance => <<r, job[r].acct>> \in written')
      BY <2>1, <2>2, <3>1, Resumed DEF Phases, Left, Before, AtHand
    <3>2. CASE phase'[r] = "catch"
      BY <2>1, <2>2, <3>2, Stopped DEF Left
    <3>. QED  BY <2>3, <3>1, <3>2
  <2>5. Heeded(r)'
    <3>1. CASE Committed(r, "upsert", None)
      BY <1>2, <2>1, <3>1, HeededCommitted DEF Phases, Left
    <3>2. CASE Become(r, "upsert") /\ UNCHANGED response
      BY <1>5, <1>6, <2>1, <3>2 DEF Phases, Left
    <3>. QED  BY <1>12, <3>1, <3>2 DEF UpdateBalance
  <2>. QED  BY <2>4, <2>5
<1>13. ASSUME phase[r] \in AtHand, phase'[r] = "accounts", written \subseteq written',
              UNCHANGED <<row, outcomes, loaded, remaining>>,
              NEW o, NEW u, NEW c, Report(r, job[r].acct, o, u, c), u => <<r, job[r].acct>> \in written'
       PROVE  Processed(r)' /\ Completed(r)' /\ Updated(r)'
  <2>. DEFINE x == [acct |-> job[r].acct, outcome |-> o, updated |-> u, current |-> IF u THEN c ELSE None]
  <2>1. accountResults'[r] = accountResults[r] \cup {x}
    BY <1>1, <1>13 DEF Report
  <2>2. x.acct = job[r].acct /\ x.updated = u
    OBVIOUS
  <2>. HIDE DEF x
  <2>3. job[r].acct \in loaded[r]
    BY <1>13 DEF RunInv, Processed, InHand
  <2>. QED  BY <1>13, <2>1, <2>2, <2>3, Reported
<1>14. CASE Upsert(r)
  <2>1. /\ phase[r] = "upsert" /\ UNCHANGED <<row, outcomes, written, loaded, remaining, job>>
        /\ row[r].status # "completed"
        /\ job[r].balance => <<r, job[r].acct>> \in written
    BY <1>2, <1>14 DEF Upsert, In, db, Left, RunInv, Updated
  <2>2. CASE Become(r, "accounts") /\ Say(r, "account") /\ ReportStored(r)
    <3>1. Processed(r)' /\ Completed(r)' /\ Updated(r)'
      BY <1>3, <1>13, <2>1, <2>2 DEF ReportStored, BalanceUpdated, AtHand
    <3>. QED  BY <1>5, <1>6, <2>1, <2>2, <3>1 DEF Phases, Left
  <2>3. CASE Become(r, "catch") /\ Say(r, "error") /\ UNCHANGED accountResults
    <3>1. Processed(r)' /\ Completed(r)' /\ Updated(r)'
      BY <1>3, <2>1, <2>3, Stopped DEF Left
    <3>. QED  BY <1>5, <1>6, <2>1, <2>3, <3>1 DEF Phases, Left
  <2>. QED  BY <1>14, <2>2, <2>3 DEF Upsert
<1>15. CASE StoreForeign(r)
  <2>1. /\ phase[r] = "foreign" /\ UNCHANGED <<row, outcomes, loaded, remaining, job>>
        /\ Become(r, "accounts") /\ Say(r, "account") /\ phase'[r] = "accounts"
    BY <1>3, <1>15 DEF StoreForeign, In
  <2>2. \/ Report(r, job[r].acct, "codef_error", FALSE, None)
        \/ ReportStored(r) /\ (job[r].balance => SetBalance(r))
    BY <1>15 DEF StoreForeign
  <2>3. written \subseteq written'
    BY <1>11, <1>15 DEF StoreForeign
  <2>4. Processed(r)' /\ Completed(r)' /\ Updated(r)'
    <3>1. CASE Report(r, job[r].acct, "codef_error", FALSE, None)
      BY <1>13, <2>1, <2>3, <3>1 DEF AtHand
    <3>2. CASE ReportStored(r) /\ (job[r].balance => SetBalance(r))
      <4>1. job[r].balance => <<r, job[r].acct>> \in written'
        BY <1>11, <3>2
      <4>2. Report(r, job[r].acct, OutcomeOf(job[r]), job[r].balance, job[r].call)
        BY <3>2 DEF ReportStored, BalanceUpdated
      <4>. QED  BY <1>13, <2>1, <2>3, <4>1, <4>2 DEF AtHand
    <3>. QED  BY <2>2, <3>1, <3>2
  <2>. QED  BY <1>5, <1>6, <2>1, <2>4 DEF Phases, Left
<1>16. CASE ForeignUnheard(r)
  <2>1. /\ phase[r] = "foreign" /\ UNCHANGED <<row, outcomes, loaded, remaining, job, accountResults>>
        /\ Become(r, "catch") /\ Say(r, "error") /\ phase'[r] = "catch" /\ row[r].status # "completed"
    BY <1>2, <1>3, <1>16 DEF ForeignUnheard, In, local, Left
  <2>2. written \subseteq written'
    BY <1>11, <1>16 DEF ForeignUnheard
  <2>3. Processed(r)' /\ Completed(r)' /\ Updated(r)'
    BY <2>1, <2>2, Stopped DEF Left
  <2>. QED  BY <1>5, <1>6, <2>1, <2>3 DEF Phases, Left
<1>17. CASE RecordOutcomes(r)
  <2>1. /\ phase[r] = "accounts" /\ remaining[r] = {} /\ outcomes'[r] = accountResults[r]
        /\ UNCHANGED <<row, written, loaded, remaining, job, accountResults>>
        /\ phase'[r] \in {"complete", "catch"} /\ row[r].status # "completed"
    BY <1>1, <1>2, <1>4, <1>17 DEF RecordOutcomes, In, local, Left
  <2>2. Processed(r)' /\ Completed(r)' /\ Updated(r)'
    <3>1. CASE phase'[r] = "complete"
      <4>1. Processed(r)'
        BY <2>1, <3>1 DEF RunInv, Processed, InHand, AtHand, Left, Before
      <4>. QED  BY <2>1, <3>1, <4>1 DEF RunInv, Completed, Updated
    <3>2. CASE phase'[r] = "catch"
      BY <2>1, <3>2, Stopped DEF Left
    <3>. QED  BY <2>1, <3>1, <3>2
  <2>3. Heeded(r)'
    BY <1>2, <1>17, <2>1, HeededCommitted DEF RecordOutcomes, Phases, Left
  <2>. QED  BY <2>2, <2>3
<1>18. CASE Complete(r)
  <2>1. /\ phase[r] = "complete" /\ row'[r] = CompletedRow(r) /\ phase'[r] \in {"ended", "catch"}
        /\ UNCHANGED <<outcomes, written, loaded, remaining, accountResults>>
    BY <1>1, <1>4, <1>18 DEF Complete, In, local
  <2>2. /\ remaining[r] = {} /\ outcomes[r] = accountResults[r] /\ InHand(r) = {}
        /\ OneEach(accountResults[r], loaded[r])
    <3>1. InHand(r) = {} /\ remaining[r] = {} /\ outcomes[r] = accountResults[r]
      BY <2>1 DEF RunInv, Completed, InHand, AtHand
    <3>2. OneEach(accountResults[r], loaded[r] \ (remaining[r] \cup InHand(r)))
      BY <2>1 DEF RunInv, Processed, Left
    <3>3. loaded[r] \ (remaining[r] \cup InHand(r)) = loaded[r]
      BY <3>1
    <3>. QED  BY <3>1, <3>2, <3>3
  <2>3. Processed(r)'
    BY <2>1, <2>2 DEF Processed, InHand, AtHand, Before, Left
  <2>4. LET c == CompletedRow(r) IN
        /\ c.total = Cardinality(outcomes[r])
        /\ c.total = c.success + c.error + c.empty
        /\ c.success = Recorded(r, {"success"})
    BY <2>2, CompletedRowCounts DEF OneEach
  <2>5. Recorded(r, {"success"})' = Recorded(r, {"success"})
    BY <2>1 DEF Recorded
  <2>6. Completed(r)'
    BY <2>1, <2>2, <2>4, <2>5, Zenon DEF Completed, Left
  <2>7. Updated(r)'
    BY <2>1 DEF RunInv, Updated
  <2>8. Heeded(r)'
    <3>1. Silent(response[r], Final) /\ Silent(response[r], {"error"}) /\ response[r] \in Seq(Events)
      BY <1>1, <1>2, <2>1 DEF Heeded, Left
    <3>2. \/ phase'[r] = "ended" /\ response'[r] \in {response[r], Append(response[r], "done")}
          \/ phase'[r] = "catch" /\ response'[r] = Append(response[r], "error")
      BY <1>1, <1>3, <1>18 DEF Complete, Committed, Say
    <3>3. CASE phase'[r] = "ended" /\ response'[r] = response[r]
      BY <3>1, <3>3 DEF Heeded, Left, Silent, Final
    <3>4. CASE phase'[r] = "ended" /\ response'[r] = Append(response[r], "done")
      <4>1. Silent(response'[r], {"error"})
        BY <3>1, <3>4, SilentAppended
      <4>2. \A i \in DOMAIN response'[r] : response'[r][i] \in Final => i = Len(response'[r])
        BY <3>1, <3>4 DEF Silent
      <4>3. row'[r].status = "completed"
        BY <2>1 DEF CompletedRow
      <4>. QED  BY <3>4, <4>1, <4>2, <4>3 DEF Heeded, Left
    <3>5. CASE phase'[r] = "catch" /\ response'[r] = Append(response[r], "error")
      <4>1. Silent(response'[r], Final)
        BY <3>1, <3>5, SilentAppended DEF Final
      <4>. QED  BY <3>5, <4>1 DEF Heeded, Left
    <3>. QED  BY <3>2, <3>3, <3>4, <3>5
  <2>. QED  BY <2>3, <2>6, <2>7, <2>8
<1>19. CASE Catch(r)
  <2>1. /\ phase[r] = "catch" /\ phase'[r] = "ended" /\ response'[r] = Append(response[r], "done-failed")
        /\ UNCHANGED <<outcomes, written, loaded, remaining, job, accountResults>>
    BY <1>1, <1>3, <1>19 DEF Catch, SayFailed, Say, In, local
  <2>2. row' = [row EXCEPT ![r].status = "failed"] \/ row' = row
    BY <1>19, Zenon DEF Catch
  <2>3. row'[r].status = "failed" \/ row'[r] = row[r]
    <3>1. CASE row' = [row EXCEPT ![r].status = "failed"]
      BY <1>1, <3>1 DEF RowType
    <3>. QED  BY <2>2, <3>1
  <2>4. Processed(r)' /\ Updated(r)'
    BY <2>1 DEF RunInv, Processed, Updated, InHand, AtHand, Before, Left
  <2>5. Completed(r)'
    <3>1. Recorded(r, {"success"})' = Recorded(r, {"success"})
      BY <2>1 DEF Recorded
    <3>. QED  BY <2>1, <2>3, <3>1 DEF RunInv, Completed, Left
  <2>6. Heeded(r)'
    <3>1. Silent(response[r], Final) /\ response[r] \in Seq(Events)
      BY <1>1, <1>2, <2>1 DEF Heeded
    <3>2. Silent(response[r], {"done"})
      BY <3>1 DEF Silent, Final
    <3>3. Silent(response'[r], {"done"})
      BY <2>1, <3>1, <3>2, SilentAppended
    <3>4. \A i \in DOMAIN response'[r] : response'[r][i] \in Final => i = Len(response'[r])
      BY <2>1, <3>1 DEF Silent
    <3>. QED  BY <2>1, <3>3, <3>4 DEF Heeded, Left
  <2>. QED  BY <2>4, <2>5, <2>6
<1>20. CASE HandlerThrows(r)
  <2>1. /\ phase[r] \notin {"catch", "ended", "dead"} /\ phase'[r] = "catch"
        /\ Become(r, "catch") /\ Say(r, "error")
        /\ UNCHANGED <<row, outcomes, written, loaded, remaining, job, accountResults>>
    BY <1>3, <1>20 DEF HandlerThrows, InTry, db, local
  <2>2. Processed(r)' /\ Completed(r)' /\ Updated(r)'
    BY <1>2, <2>1, Stopped DEF Left
  <2>. QED  BY <1>5, <1>6, <2>1, <2>2 DEF Phases, Left
<1>21. CASE Kill(r)
  <2>1. /\ phase[r] \notin {"ended", "dead"} /\ phase'[r] = "dead" /\ Become(r, "dead")
        /\ UNCHANGED <<row, outcomes, written, loaded, remaining, job, accountResults, response>>
    BY <1>3, <1>21 DEF Kill, db, local
  <2>2. CASE phase[r] = "catch"
    <3>1. Processed(r)' /\ Completed(r)' /\ Updated(r)'
      BY <2>1, <2>2 DEF RunInv, Processed, Completed, Updated, InHand, AtHand, Before, Left, Recorded
    <3>. QED  BY <1>2, <2>1, <2>2, <3>1 DEF Heeded, Left
  <2>3. CASE phase[r] # "catch"
    <3>1. Processed(r)' /\ Completed(r)' /\ Updated(r)'
      BY <1>2, <2>1, <2>3, Stopped DEF Left
    <3>. QED  BY <1>5, <1>6, <2>1, <2>3, <3>1 DEF Phases, Left
  <2>. QED  BY <2>2, <2>3
<1>. QED  BY <1>7, <1>8, <1>9, <1>10, <1>12, <1>14, <1>15, <1>16, <1>17, <1>18, <1>19, <1>20, <1>21
          DEF RunAction, SyncStep

LEMMA RunsInit == SyncInit => RunsInv
<1>. SUFFICES ASSUME SyncInit, NEW r \in Runs
              PROVE  Processed(r) /\ Completed(r) /\ Updated(r) /\ Heeded(r)
  BY DEF RunsInv
<1>1. /\ phase[r] = "idle" /\ row[r].status = "none" /\ outcomes[r] = {} /\ accountResults[r] = {}
      /\ loaded[r] = {} /\ remaining[r] = {} /\ response[r] = << >>
  BY DEF SyncInit
<1>2. OneEach({}, {})
  BY FS_EmptySet DEF OneEach
<1>. QED  BY <1>1, <1>2 DEF Processed, Completed, Updated, Heeded, InHand, AtHand, Before, Left, Silent

LEMMA RunsNext == SyncTypeOK /\ RunsInv /\ [SyncNext]_syncVars => RunsInv'
<1>. SUFFICES ASSUME SyncTypeOK, RunsInv, [SyncNext]_syncVars, NEW s \in Runs PROVE RunInv(s)'
  BY DEF RunsInv, RunInv
<1>1. RunInv(s)
  BY DEF RunsInv, RunInv
<1>2. CASE UNCHANGED syncVars
  <2>1. Same(s)
    BY <1>2 DEF syncVars, db, local, Same
  <2>. QED  BY <1>1, <2>1, SameKeeps
<1>3. ASSUME NEW r \in Runs, RunAction(r) PROVE RunInv(s)'
  <2>1. CASE s = r
    BY <1>1, <1>3, <2>1, RunNext
  <2>2. CASE s # r
    <3>1. Same(s)
      BY <1>3, <2>2, OthersStay
    <3>. QED  BY <1>1, <3>1, SameKeeps
  <2>. QED  BY <2>1, <2>2
<1>. QED  BY <1>2, <1>3 DEF SyncNext, RunAction

\* Every variable of the syncs has its type, with any accounts, runs and faults.
THEOREM SyncTypeCorrect == SyncSpec => [](SyncTypeOK /\ RunsInv)
<1>1. SyncInit => SyncTypeOK /\ RunsInv
  BY SyncTypeInit, RunsInit
<1>2. SyncTypeOK /\ RunsInv /\ [SyncNext]_syncVars => (SyncTypeOK /\ RunsInv)'
  BY SyncTypeNext, RunsNext
<1>. QED  BY <1>1, <1>2, PTL DEF SyncSpec

\* The counters of a completed run are those of its outcome rows, one for every account it
\* loaded, whatever fails, commits unheard or is killed.
THEOREM CountersAreTheRows == SyncSpec => []CountsMatchOutcomes
<1>1. RunsInv => CountsMatchOutcomes
  BY DEF RunsInv, Completed, OneEach, CountsMatchOutcomes
<1>. QED  BY <1>1, SyncTypeCorrect, PTL

\* A balance recorded as updated was committed, in this run.
THEOREM UpdatesAreWritten == SyncSpec => []FlagMeansWritten
<1>1. RunsInv => FlagMeansWritten
  BY DEF RunsInv, Updated, FlagMeansWritten
<1>. QED  BY <1>1, SyncTypeCorrect, PTL

\* A run that tells its client it is done is a completed one, and tells nothing after that.
THEOREM DoneIsCompleted == SyncSpec => []DoneMeansCompleted
<1>1. SyncTypeOK /\ RunsInv => DoneMeansCompleted
  <2>. SUFFICES ASSUME SyncTypeOK, RunsInv, NEW r \in Runs
                PROVE  /\ Heard(r, "done") => row[r].status = "completed" /\ ~Heard(r, "error")
                       /\ \A i \in DOMAIN response[r] :
                            response[r][i] \in {"done", "done-failed"} =>
                              i = Len(response[r]) /\ phase[r] = "ended"
    BY DEF DoneMeansCompleted
  <2>. QED  BY DEF RunsInv, Heeded, Heard, Silent, Final
<1>. QED  BY <1>1, SyncTypeCorrect, PTL
=================================================================================
