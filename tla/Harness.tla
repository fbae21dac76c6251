------------------------------ MODULE Harness ------------------------------
(***************************************************************************)
(* What drives the chat model: run_loop, the agent loop over the tools of  *)
(* an operation with its Budget, and coerce_structured, which asks for one *)
(* object of a schema and asks again when the answer is not one.           *)
(*                                                                         *)
(* A tool call is named by its signature (tool and arguments).  What the   *)
(* model answers is anything: any calls, any number of them, any count of  *)
(* tokens.  What a tool does to the wiki is the subject of Articles; here  *)
(* it succeeds, or raises what _execute reports to the model, or raises    *)
(* something else, which ends the run.  Messages are left out.             *)
(***************************************************************************)
EXTENDS Naturals, Sequences

CONSTANTS
    Calls,         \* signatures
    Listed,        \* those of tools in tools_for(op)
    Writing,       \* those of tools with writes=True
    MaxSteps, MaxToolCalls, MaxWrites, TokenBudget,   \* WikiConfig
    Retries,       \* of coerce_structured
    MaxUse,        \* the most tokens of an answer
    MaxBatch       \* bound: tool calls in an answer

ASSUME HarnessAssumption ==
    /\ Listed \subseteq Calls
    /\ Writing \subseteq Calls
    /\ MaxSteps \in Nat /\ MaxToolCalls \in Nat /\ MaxWrites \in Nat
    /\ TokenBudget \in Nat /\ Retries \in Nat /\ MaxUse \in Nat /\ MaxBatch \in Nat

VARIABLES
    phase,     \* Phases
    budget,    \* Budget    its counters
    seen,      \* SUBSET Calls   _signatures
    calls,     \* Seq(Calls)     calls of the answer that are yet to be executed
    tried,     \* Nat       passes of coerce_structured
    \* history
    asked,     \* Nat       calls of the model
    spent,     \* Nat       tokens of its answers
    ran,       \* Seq(Calls)     calls whose tool was run
    wrote      \* Seq(Calls)     those that write

harnessVars == <<phase, budget, seen, calls, tried, asked, spent, ran, wrote>>
harnessRun == <<seen, calls, ran, wrote>>

Phases == {"step", "ask", "tools", "coerce", "done", "raised"}
Budget == [steps : Nat, toolCalls : Nat, writes : Nat, tokens : Nat]

-----------------------------------------------------------------------------
(* run_loop *)

\* Budget.step, or the end without an answer.
TakeStep ==
    /\ phase = "step"
    /\ budget' = [budget EXCEPT !.steps = @ + 1]
    /\ phase' = IF budget.steps + 1 > MaxSteps THEN "done" ELSE "ask"
    /\ UNCHANGED <<harnessRun, tried, asked, spent>>

\* The model's answer takes n tokens: asked, whatever comes of it.
Ask(n) == asked' = asked + 1 /\ spent' = spent + n

\* The provider cannot be reached, or what it sends cannot be read.
ProviderFails ==
    /\ phase \in {"ask", "coerce"}
    /\ Ask(0)
    /\ phase' = "raised"
    /\ UNCHANGED <<harnessRun, budget, tried>>

\* add_tokens: compared before the tokens are added.
AddTokens(n) ==
    /\ budget.tokens < TokenBudget
    /\ budget' = [budget EXCEPT !.tokens = @ + n]

\* LimitExceeded leaves run_loop here.
OutOfTokens(n) ==
    /\ phase = "ask"
    /\ budget.tokens >= TokenBudget
    /\ Ask(n)
    /\ phase' = "raised"
    /\ UNCHANGED <<harnessRun, budget, tried>>

FinalAnswer(n) ==
    /\ phase = "ask"
    /\ AddTokens(n)
    /\ Ask(n)
    /\ phase' = "done"
    /\ UNCHANGED <<harnessRun, tried>>

ToolAnswer(n, s) ==
    /\ phase = "ask"
    /\ s # <<>>
    /\ AddTokens(n)
    /\ Ask(n)
    /\ calls' = s
    /\ phase' = "tools"
    /\ UNCHANGED <<seen, tried, ran, wrote>>

-----------------------------------------------------------------------------
(* _execute and run_tool *)

NextCall ==
    /\ calls' = Tail(calls)
    /\ phase' = IF Tail(calls) = <<>> THEN "step" ELSE "tools"

\* Not allowed here, or the same call again: an error for the model.
RefuseCall ==
    /\ phase = "tools"
    /\ Head(calls) \notin Listed \/ Head(calls) \in seen
    /\ NextCall
    /\ UNCHANGED <<budget, seen, tried, asked, spent, ran, wrote>>

IsNew(c) == c \in Listed /\ c \notin seen

\* Budget.tool_call and Budget.write for c: a write that is refused has used up a
\* tool call.
Charge(c) ==
    budget' = [budget EXCEPT
        !.toolCalls = @ + 1,
        !.writes = IF c \in Writing /\ budget.toolCalls < MaxToolCalls THEN @ + 1 ELSE @]

\* Fault: a write is not counted when it is refused a tool call.
AffordsCall(c) == budget.toolCalls < MaxToolCalls

\* Neither of the two raises LimitExceeded.
Affords(c) == /\ budget.toolCalls < MaxToolCalls
              /\ c \in Writing => budget.writes < MaxWrites

\* LimitExceeded is an error for the model.
OverLimit ==
    /\ phase = "tools"
    /\ IsNew(Head(calls))
    /\ ~Affords(Head(calls))
    /\ Charge(Head(calls))
    /\ seen' = seen \cup {Head(calls)}
    /\ NextCall
    /\ UNCHANGED <<tried, asked, spent, ran, wrote>>

\* The tool is run: it returns, or raises what is an error for the model, or (lost)
\* anything else.
RunTool(lost) ==
    /\ phase = "tools"
    /\ IsNew(Head(calls))
    /\ Affords(Head(calls))
    /\ Charge(Head(calls))
    /\ seen' = seen \cup {Head(calls)}
    /\ ran' = Append(ran, Head(calls))
    /\ wrote' = IF Head(calls) \in Writing THEN Append(wrote, Head(calls)) ELSE wrote
    /\ IF lost THEN phase' = "raised" /\ calls' = <<>> ELSE NextCall
    /\ UNCHANGED <<tried, asked, spent>>

-----------------------------------------------------------------------------
(* coerce_structured *)

\* The answer is not of the schema: the error is sent back, the last time raised.
BadObject(n) ==
    /\ phase = "coerce"
    /\ tried' = tried + 1
    /\ phase' = IF tried < Retries THEN "coerce" ELSE "raised"
    /\ Ask(n)
    /\ UNCHANGED <<harnessRun, budget>>

GoodObject(n) ==
    /\ phase = "coerce"
    /\ phase' = "done"
    /\ Ask(n)
    /\ UNCHANGED <<harnessRun, budget, tried>>

-----------------------------------------------------------------------------
HarnessInit ==
    /\ phase \in {"step", "coerce"}
    /\ budget = [steps |-> 0, toolCalls |-> 0, writes |-> 0, tokens |-> 0]
    /\ seen = {}
    /\ calls = <<>>
    /\ tried = 0
    /\ asked = 0 /\ spent = 0
    /\ ran = <<>> /\ wrote = <<>>

Answers == UNION {[1..k -> Calls] : k \in 1..MaxBatch}

HarnessNext ==
    \/ TakeStep
    \/ \E n \in 0..MaxUse :
        \/ OutOfTokens(n) \/ FinalAnswer(n) \/ BadObject(n) \/ GoodObject(n)
        \/ \E s \in Answers : ToolAnswer(n, s)
    \/ ProviderFails \/ RefuseCall \/ OverLimit
    \/ \E lost \in BOOLEAN : RunTool(lost)

HarnessSpec == HarnessInit /\ [][HarnessNext]_harnessVars

-----------------------------------------------------------------------------
(* Properties *)

HarnessTypeOK ==
    /\ phase \in Phases
    /\ budget \in Budget
    /\ seen \in SUBSET Calls
    /\ calls \in Seq(Calls)
    /\ tried \in Nat /\ asked \in Nat /\ spent \in Nat
    /\ ran \in Seq(Calls) /\ wrote \in Seq(Calls)

Distinct(s) == \A i, j \in 1..Len(s) : i # j => s[i] # s[j]

\* Whatever the model answers, a run asks it, runs tools and writes no more often
\* than its configuration says, and no call twice; its tokens are over the budget by
\* no more than its two last answers.
BudgetBoundsRun ==
    /\ asked <= IF budget.steps > 0 THEN MaxSteps ELSE Retries + 1
    /\ Len(ran) <= MaxToolCalls /\ Distinct(ran)
    /\ Len(wrote) <= MaxWrites
    /\ budget.steps > 0 => spent <= TokenBudget + 2 * MaxUse
=============================================================================
