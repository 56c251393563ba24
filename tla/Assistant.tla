------------------------------- MODULE Assistant -------------------------------
(***************************************************************************)
(* One question to the chat assistant (chat_api.go, ai_sanitize.go): a     *)
(* language model is asked until it answers, its tool calls are executed   *)
(* in between, and it sees aliases in place of names, which its answer is  *)
(* translated back from.  What became of the question is recorded.         *)
(*                                                                         *)
(* Abstractions.  A text is the set of the names in it.  "shop/web" is two *)
(* names, a namespace and a workload.  The model uses no name that it was  *)
(* not shown, and no name looks like an alias.  Tokens and times are left  *)
(* out, as is the narrator, which asks once and has no tools.              *)
(***************************************************************************)
EXTENDS Integers, Sequences, FiniteSets

CONSTANTS
  Kind,             \* workload, endpoint, namespace, ...
  Real,             \* what things are called
  Mode,             \* the values of CHIDRIXX_AI_MODE
  MaxToolRounds,    \* maxChatToolRounds
  MaxCalls          \* bound on the tool calls in a message

ASSUME AssistantAssumption ==
  /\ IsFiniteSet(Kind) /\ IsFiniteSet(Real) /\ Real \cap Nat = {}
  /\ Mode \subseteq {"sanitized", "raw"}
  /\ MaxToolRounds \in Nat \ {0} /\ MaxCalls \in Nat \ {0}

Name == Kind \X Real
Alias == Kind \X Nat

VARIABLES
  mode,
  pc,
  messages,   \* the conversation: <<"assistant", number of calls>>, <<"tool", which>>
  todo,       \* the calls of the last message that are still to be made
  forward,    \* Sanitizer: the number of each name's alias; reverse follows it
     \*            the name of each alias
  shown,      \* the texts in the conversation: each with the name it stands for (history)
  res,        \* chatLoopResult
  asked,      \* the requests to the model (history)
  meant,      \* the names in the model's answer (history)
  events      \* ai_eval_events

chatVars == <<mode, pc, messages, todo, forward, shown, res, asked, meant, events>>

Result == [rounds : Nat, calls : Nat, errors : Nat, hitLimit : BOOLEAN,
           failed : BOOLEAN, reply : SUBSET (Name \cup Alias)]
NoMap == [x \in {} |-> 0]

ChatTypeOK ==
  /\ mode \in Mode
  /\ pc \in {"ask", "retry", "tools", "record", "done"}
  /\ messages \in Seq({"assistant", "tool"} \X Nat)
  /\ todo \in Nat
  /\ DOMAIN forward \subseteq Name /\ \A n \in DOMAIN forward : forward[n] \in Nat
  /\ shown \subseteq (Name \cup Alias) \X Name
  /\ res \in Result
  /\ asked \in Nat
  /\ meant \subseteq Name
  /\ events \in Seq(Result)

ChatInit ==
  /\ mode \in Mode
  /\ pc = "ask" /\ messages = <<>> /\ todo = 0
  /\ forward = NoMap /\ shown = {}
  /\ res = [rounds |-> 0, calls |-> 0, errors |-> 0, hitLimit |-> FALSE,
            failed |-> FALSE, reply |-> {}]
  /\ asked = 0 /\ meant = {} /\ events = <<>>

-------------------------------------------------------------------------------
(* Asking the model.                                                        *)

\* A round begins with the first request for it.
Rounds == IF pc = "ask" THEN res.rounds + 1 ELSE res.rounds

\* The request fails, or is refused for a malformed call: it is made once more.
AskFails ==
  /\ pc \in {"ask", "retry"}
  /\ pc' = IF pc = "ask" THEN "retry" ELSE "record"
  /\ res' = [res EXCEPT !.rounds = Rounds, !.failed = (pc = "retry")]
  /\ asked' = asked + 1
  /\ UNCHANGED <<mode, messages, todo, forward, shown, meant, events>>

\* The model wants tools.
AskForTools ==
  /\ pc \in {"ask", "retry"}
  /\ \E n \in 1 .. MaxCalls :
       /\ messages' = Append(messages, <<"assistant", n>>)
       /\ todo' = n
  /\ pc' = "tools"
  /\ res' = [res EXCEPT !.rounds = Rounds]
  /\ asked' = asked + 1
  /\ UNCHANGED <<mode, forward, shown, meant, events>>

AliasOf(f, n) == <<n[1], f[n]>>

\* Restore, of one word.
Restored(t) ==
  IF mode = "sanitized" /\ \E n \in DOMAIN forward : AliasOf(forward, n) = t
  THEN CHOOSE n \in DOMAIN forward : AliasOf(forward, n) = t
  ELSE t

\* The model answers, of some of the things it was shown.
Answers ==
  /\ pc \in {"ask", "retry"}
  /\ \E S \in SUBSET shown :
       /\ meant' = {s[2] : s \in S}
       /\ res' = [res EXCEPT !.rounds = Rounds, !.reply = {Restored(s[1]) : s \in S}]
  /\ pc' = "record"
  /\ asked' = asked + 1
  /\ UNCHANGED <<mode, messages, todo, forward, shown, events>>

-------------------------------------------------------------------------------
(* The tools.                                                               *)

Last == messages[Len(messages)]

\* The next call's answer goes into the conversation.
Answered == Append(messages,
  <<"tool", IF Last[1] = "assistant" THEN 1 ELSE Last[2] + 1>>)

Count(k, f) == Cardinality({n \in DOMAIN f : n[1] = k})

\* Mutant of Numberings: every result is counted anew.
Numberings_CountsAnew(S) ==
  LET new == S \ DOMAIN forward
  IN {f \in [DOMAIN forward \cup new -> 0 .. Cardinality(DOMAIN forward \cup new)] :
        /\ \A n \in DOMAIN forward : f[n] = forward[n]
        /\ \A n \in new : f[n] \in 1 .. Cardinality({m \in new : m[1] = n[1]})
        /\ \A m, n \in new : m # n /\ m[1] = n[1] => f[m] # f[n]}

\* The table with the aliases of S added to it, in some order.
Numberings(S) ==
  LET new == S \ DOMAIN forward
  IN {f \in [DOMAIN forward \cup new -> 0 .. Cardinality(DOMAIN forward \cup new)] :
        /\ \A n \in DOMAIN forward : f[n] = forward[n]
        /\ \A n \in new : f[n] \in Count(n[1], forward) + 1 .. Count(n[1], f)
        /\ \A m, n \in new : m # n /\ m[1] = n[1] => f[m] # f[n]}

ToolAnswers ==
  /\ pc = "tools" /\ todo > 0
  /\ \E S \in SUBSET Name :
       IF mode = "sanitized"
       THEN \E f \in Numberings(S) :
              /\ forward' = f
              /\ shown' = shown \cup {<<AliasOf(f, n), n>> : n \in S}
       ELSE /\ shown' = shown \cup {<<n, n>> : n \in S}
            /\ UNCHANGED forward
  /\ messages' = Answered
  /\ todo' = todo - 1
  /\ res' = [res EXCEPT !.calls = @ + 1]
  /\ UNCHANGED <<mode, pc, asked, meant, events>>

\* Mutant of ToolFails: the call goes without an answer.
ToolFails_Silently ==
  /\ pc = "tools" /\ todo > 0
  /\ todo' = todo - 1
  /\ res' = [res EXCEPT !.calls = @ + 1, !.errors = @ + 1]
  /\ UNCHANGED <<mode, pc, messages, forward, shown, asked, meant, events>>

\* Mutant of ToolFails: errors are not counted as calls.
ToolFails_CountedApart ==
  /\ pc = "tools" /\ todo > 0
  /\ messages' = Answered
  /\ todo' = todo - 1
  /\ res' = [res EXCEPT !.errors = @ + 1]
  /\ UNCHANGED <<mode, pc, forward, shown, asked, meant, events>>

\* An unknown tool, or an error: that is what the model gets to read.
ToolFails ==
  /\ pc = "tools" /\ todo > 0
  /\ messages' = Answered
  /\ todo' = todo - 1
  /\ res' = [res EXCEPT !.calls = @ + 1, !.errors = @ + 1]
  /\ UNCHANGED <<mode, pc, forward, shown, asked, meant, events>>

\* Mutant of ToolsDone: nothing happens at the limit.
ToolsDone_NoGiveUp ==
  /\ pc = "tools" /\ todo = 0 /\ res.rounds < MaxToolRounds
  /\ pc' = "ask"
  /\ UNCHANGED <<mode, messages, todo, forward, shown, res, asked, meant, events>>

ToolsDone ==
  /\ pc = "tools" /\ todo = 0
  /\ IF res.rounds < MaxToolRounds
     THEN pc' = "ask" /\ UNCHANGED res
     ELSE pc' = "record" /\ res' = [res EXCEPT !.hitLimit = TRUE]
  /\ UNCHANGED <<mode, messages, todo, forward, shown, asked, meant, events>>

\* "a telemetry-write failure must never take down the actual user-facing feature"
Record ==
  /\ pc = "record"
  /\ events' \in {Append(events, res), events}
  /\ pc' = "done"
  /\ UNCHANGED <<mode, messages, todo, forward, shown, res, asked, meant>>

ChatNext == AskFails \/ AskForTools \/ Answers \/ ToolAnswers \/ ToolFails \/ ToolsDone \/ Record

ChatSpec == ChatInit /\ [][ChatNext]_chatVars

\* Every request to the model is over within the client's timeout of 30 seconds.
FairChat == ChatSpec /\ WF_chatVars(ChatNext)

-------------------------------------------------------------------------------
(* Properties.                                                              *)

\* The operator reads of what the model meant: an alias stands for one name through all
\* rounds of a question, whichever of the tools showed it first and however many names
\* came in between (Sanitizer: "the same real workload always maps to the same alias, so
\* the model can correlate across several tool calls").
AnswerIsMeant == res.reply = meant

Calls(m) == IF m[1] = "assistant" THEN m[2] ELSE 0

\* Whenever the model is asked, also for the second time and after tools that failed,
\* every call it made has exactly one answer, in order, before its next message: the
\* provider refuses any other conversation, at every further round.
CallsAreAnswered ==
  pc \in {"ask", "retry"} =>
    \A i \in DOMAIN messages :
      /\ \A j \in 1 .. Calls(messages[i]) :
           i + j \in DOMAIN messages /\ messages[i + j] = <<"tool", j>>
      /\ messages[i][1] = "tool" =>
           LET j == messages[i][2] IN i > j /\ Calls(messages[i - j]) >= j

Of(role) == {i \in DOMAIN messages : messages[i][1] = role}

\* A question is recorded once at most, as what it was: answered, failed or given up,
\* with the rounds and calls that the conversation shows, whatever failed on the way;
\* and the model was asked twice in a round at most, in no more rounds than the limit.
EventsTellWhatHappened ==
  /\ Len(events) <= 1
  /\ \A i \in DOMAIN events :
       LET e == events[i]
       IN /\ e.calls = Cardinality(Of("tool")) /\ e.errors <= e.calls
          /\ e.rounds = Cardinality(Of("assistant")) + (IF e.hitLimit THEN 0 ELSE 1)
          /\ e.rounds <= MaxToolRounds /\ asked <= 2 * e.rounds
          /\ e.hitLimit => e.rounds = MaxToolRounds
          /\ e.failed => ~e.hitLimit /\ asked > e.rounds
          /\ e.failed \/ e.hitLimit => meant = {}

\* Every question comes to an end, at the limit too.
EveryQuestionEnds == <>(pc = "done")
================================================================================
