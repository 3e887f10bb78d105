----------------------------- MODULE GuardedCalls -----------------------------
(***************************************************************************)
(* The calls a program makes through wrapped clients and wrapped functions *)
(* and what is witnessed of them.  A call begins behind the gate (strict   *)
(* mode) and the ChainEnforcer, runs while others begin and end, and is    *)
(* recorded when its answer is there: at once, or when a stream has been   *)
(* iterated to its end.                                                    *)
(* Source: packages/swt3-ai-ts/src/witness.ts and src/adapters/.           *)
(***************************************************************************)
EXTENDS AdapterSurface, SequencesExt, FiniteSets

CONSTANTS
    Calls,      \* the calls of the program
    HooksOfCall,  \* the interceptions a call may go through
    Tools,      \* names given to wrapTool and wrapVLA
    Blocklist,  \* toolBlocklist
    Allowlist,  \* toolAllowlist, all of Tools if there is none
    RuleOf,     \* what the custom rules say of a tool: "run", "logged" or "blocked"
    Limit,      \* velocityLimit, positive: 0 would turn the check off
    Span,       \* velocityWindowMs, in ticks
    MaxDepth,   \* maxChainDepth
    Budget,     \* maxTokensPerSession, in units of what recordTokens is given
    MaxTime,    \* bound: clock
    MaxResets   \* bound: calls of resetDepth and resetTokens

ASSUME HooksAssumption == HooksOfCall \in [Calls -> SUBSET (Interceptions \cup ClientCalls)]
ASSUME BoundsAssumption == MaxTime \in Nat /\ MaxResets \in Nat
ASSUME EnforcerAssumption ==
    /\ Limit \in Nat \ {0} /\ Span \in Nat \ {0} /\ MaxDepth \in Nat /\ Budget \in Nat
    /\ RuleOf \in [Tools -> {"run", "logged", "blocked"}]

VARIABLES
    strict,      \* Witness.strict
    guarded,     \* guardrailNames.length >= guardrailsRequired
    failSecure,  \* of the tool policy
    enforcer,    \* ChainEnforcer: velocityWindow, chainDepth, lastToolName, tokenCount
    calls,       \* the call in each place
    log,         \* the records made of each call, in order
    clock,       \* Date.now()
    attempts,    \* history: the enforcer's verdicts, and its resets
    resets       \* history: their number

vars == <<strict, guarded, failSecure, enforcer, calls, log, clock, attempts, resets>>

NoTool == "none"
ASSUME ToolsAssumption == NoTool \notin Tools
NoHook == Unseen([class |-> "none"], "none")
Idle == [phase |-> "idle", hook |-> NoHook, tool |-> NoTool, verdict |-> "run", plain |-> FALSE]

Phases == {"idle", "refused", "blocked", "running", "streaming",
           "returned", "threw", "lost", "broken"}

---------------------------------------------------------------------------
(* ChainEnforcer.check: the lists, the velocity, the depth, the tokens and *)
(* the custom rules, in this order; the first that objects decides.        *)
Listed(tool) == tool \notin Blocklist /\ tool \in Allowlist

(* What came before the cutoff is shifted off the front of the window. *)
Recent ==
    LET window == enforcer.window
        old == {n \in 0..Len(window) : \A i \in 1..n : window[i] <= clock - Span}
    IN  SubSeq(window, Max(old) + 1, Len(window))

\* Definitions marked "Fault:" are the same code with one mistake in it.  They are no
\* part of the specification: each is what some property rules out.

\* Fault: one call more than the limit.
TooFastAfter == Len(Recent) > Limit

TooFast == Len(Recent) >= Limit

Depth(tool) == IF enforcer.last \in {tool, NoTool} THEN enforcer.depth + 1 ELSE 1

\* Fault: the depth before this call is held against the limit.
TooDeepBefore(tool) == enforcer.depth > MaxDepth

TooDeep(tool) == Depth(tool) > MaxDepth

Spent == enforcer.tokens >= Budget

Verdict(tool) ==
    CASE ~Listed(tool) -> "blocked"
      [] Listed(tool) /\ (TooFast \/ TooDeep(tool) \/ Spent) ->
            IF failSecure THEN "blocked" ELSE "logged"
      [] OTHER -> RuleOf[tool]

\* A call that comes too fast, blocked or not, takes no place in the window and is
\* not counted as depth; one that is too deep, or blocked by a rule, has been counted.
Checked(tool) ==
    CASE ~Listed(tool) -> enforcer
      [] Listed(tool) /\ TooFast -> [enforcer EXCEPT !.window = Recent]
      [] OTHER -> [enforcer EXCEPT !.window = Append(Recent, clock),
                                   !.depth = Depth(tool), !.last = tool]

---------------------------------------------------------------------------
Entry(kind, procs, refusal) == [kind |-> kind, procs |-> procs, refusal |-> refusal]

Write(c, entries) == log' = [log EXCEPT ![c] = @ \o entries]

Become(c, phase) == calls' = [calls EXCEPT ![c].phase = phase]

\* Fault: the record is filed as one of a chain.
ViolationOfChain(verdict) ==
    IF verdict = "logged" THEN <<Entry("violation", {"AI-CHAIN.1"}, TRUE)>> ELSE <<>>

(* _recordChainViolation: a refusal of a tool, recorded before the call runs. *)
ViolationOf(verdict) ==
    IF verdict = "logged" THEN <<Entry("violation", {"AI-TOOL.1"}, TRUE)>> ELSE <<>>

Init ==
    /\ strict \in BOOLEAN /\ failSecure \in BOOLEAN
    /\ guarded \in (IF strict THEN BOOLEAN ELSE {TRUE})      \* else it does not matter
    /\ enforcer = [window |-> <<>>, depth |-> 0, last |-> NoTool, tokens |-> 0]
    /\ calls = [c \in Calls |-> Idle]
    /\ log = [c \in Calls |-> <<>>]
    /\ clock = 0
    /\ attempts = <<>>
    /\ resets = 0

(* A call through an interception without an enforcer; gateCheck comes first in *)
(* strict mode, mints AI-GRD.3 whatever it finds, and throws if rails are missing. *)
Begin(c, hook) ==
    /\ calls[c].phase = "idle"
    /\ ~hook.enforced
    /\ LET checked == strict /\ hook.gated
       IN  /\ Write(c, IF checked THEN <<Entry("gate", {"AI-GRD.3"}, ~guarded)>> ELSE <<>>)
           /\ calls' = [calls EXCEPT ![c].hook = hook,
                            ![c].phase = IF checked /\ ~guarded THEN "refused" ELSE "running"]
    /\ UNCHANGED <<strict, guarded, failSecure, enforcer, clock, attempts, resets>>

(* A call of a function that wrapTool or wrapVLA has wrapped. *)
BeginTool(c, hook, tool) ==
    /\ calls[c].phase = "idle"
    /\ hook.enforced
    /\ LET verdict == Verdict(tool)
       IN  /\ enforcer' = Checked(tool)
           /\ attempts' = Append(attempts, [tool |-> tool, verdict |-> verdict, time |-> clock])
           /\ Write(c, ViolationOf(verdict))
           /\ calls' = [calls EXCEPT ![c] =
                [@ EXCEPT !.hook = hook, !.tool = tool, !.verdict = verdict,
                          !.phase = IF verdict = "blocked" THEN "blocked" ELSE "running"]]
    /\ UNCHANGED <<strict, guarded, failSecure, clock, resets>>

(* The answer: what it says of its end decides whether it counts as a refusal. *)
Recorded(c, end) ==
    IF calls[c].hook.mints = {} THEN <<>>
    ELSE <<Entry("call", calls[c].hook.mints, end \in calls[c].hook.refusals)>>

Return(c, end) ==
    /\ calls[c].phase = "running" /\ ~calls[c].hook.streams
    /\ Write(c, Recorded(c, end))
    /\ calls' = [calls EXCEPT ![c].phase = "returned", ![c].plain = end \in Plain]
    /\ UNCHANGED <<strict, guarded, failSecure, enforcer, clock, attempts, resets>>

(* A tool that returns nothing: the hash of its result throws after it has run, *)
(* and the caller gets that error.                                              *)
ReturnNothing(c) ==
    /\ calls[c].phase = "running" /\ calls[c].hook.at \in {"wrapTool", "wrapAccess"}
    /\ Become(c, "broken")
    /\ UNCHANGED <<strict, guarded, failSecure, enforcer, log, clock, attempts, resets>>

(* The call throws.  Only the wrappers of witness.ts record that. *)
Throw(c) ==
    /\ calls[c].phase = "running"
    /\ Write(c, IF calls[c].hook.failures
                THEN <<Entry("call", calls[c].hook.mints, TRUE)>> ELSE <<>>)
    /\ Become(c, "threw")
    /\ UNCHANGED <<strict, guarded, failSecure, enforcer, clock, attempts, resets>>

\* Fault: the call is recorded when the stream is handed out, and again at its end.
OpenRecords(c) ==
    /\ calls[c].phase = "running" /\ calls[c].hook.streams
    /\ Write(c, Recorded(c, "stop"))
    /\ Become(c, "streaming")
    /\ UNCHANGED <<strict, guarded, failSecure, enforcer, clock, attempts, resets>>

(* The answer is a stream: the caller gets a proxy of it. *)
Open(c) ==
    /\ calls[c].phase = "running" /\ calls[c].hook.streams
    /\ Become(c, "streaming")
    /\ UNCHANGED <<strict, guarded, failSecure, enforcer, log, clock, attempts, resets>>

(* Iterated to its end: the generator records after the last chunk. *)
Drain(c, end) ==
    /\ calls[c].phase = "streaming"
    /\ Write(c, Recorded(c, end))
    /\ calls' = [calls EXCEPT ![c].phase = "returned", ![c].plain = end \in Plain]
    /\ UNCHANGED <<strict, guarded, failSecure, enforcer, clock, attempts, resets>>

(* Left before its end, broken by an error, or read by finalMessage() or *)
(* toReadableStream(), which pass the generator by.                      *)
Leave(c) ==
    /\ calls[c].phase = "streaming"
    /\ Become(c, "lost")
    /\ UNCHANGED <<strict, guarded, failSecure, enforcer, log, clock, attempts, resets>>

---------------------------------------------------------------------------
RecordTokens ==
    /\ enforcer.tokens < Budget
    /\ enforcer' = [enforcer EXCEPT !.tokens = @ + 1]
    /\ UNCHANGED <<strict, guarded, failSecure, calls, log, clock, attempts, resets>>

ResetTokens ==
    /\ resets < MaxResets
    /\ resets' = resets + 1
    /\ enforcer' = [enforcer EXCEPT !.tokens = 0]
    /\ UNCHANGED <<strict, guarded, failSecure, calls, log, clock, attempts>>

ResetDepth ==
    /\ resets < MaxResets
    /\ resets' = resets + 1
    /\ enforcer' = [enforcer EXCEPT !.depth = 0, !.last = NoTool]
    /\ attempts' = Append(attempts, [tool |-> NoTool, verdict |-> "reset", time |-> clock])
    /\ UNCHANGED <<strict, guarded, failSecure, calls, log, clock>>

Tick ==
    /\ clock < MaxTime
    /\ clock' = clock + 1
    /\ UNCHANGED <<strict, guarded, failSecure, enforcer, calls, log, attempts, resets>>

Next ==
    \/ \E c \in Calls :
        \/ \E hook \in HooksOfCall[c] : Begin(c, hook) \/ \E tool \in Tools : BeginTool(c, hook, tool)
        \/ \E end \in Ends : Return(c, end) \/ Drain(c, end)
        \/ ReturnNothing(c) \/ Throw(c) \/ Open(c) \/ Leave(c)
    \/ RecordTokens \/ ResetTokens \/ ResetDepth
    \/ Tick

Spec == Init /\ [][Next]_vars
---------------------------------------------------------------------------
\* What the calls of the program may be recorded as.
Minted == UNION {hook.mints : hook \in UNION Range(HooksOfCall)}

TypeOK ==
    /\ strict \in BOOLEAN /\ guarded \in BOOLEAN /\ failSecure \in BOOLEAN
    /\ enforcer \in [window : Seq(0..MaxTime), depth : Nat, last : Tools \cup {NoTool},
                     tokens : 0..Budget]
    /\ calls \in [Calls -> [phase : Phases, hook : (UNION Range(HooksOfCall)) \cup {NoHook},
                            tool : Tools \cup {NoTool},
                            verdict : {"run", "logged", "blocked"}, plain : BOOLEAN]]
    /\ log \in [Calls -> Seq([kind : {"gate", "violation", "call"},
                              procs : SUBSET ({"AI-GRD.3", "AI-TOOL.1"} \cup Minted),
                              refusal : BOOLEAN])]
    /\ clock \in 0..MaxTime /\ resets \in 0..MaxResets

Kinds(c) == [i \in DOMAIN log[c] |-> log[c][i].kind]

\* However it ends, the answer is no answer.
Abstains(hook) == hook.refusals = Ends

\* What the log says of a call agrees with how far the call has come: first the word of
\* the gate or the enforcer, if there is one, and then, at most once, the call.  A call
\* that returned is there, and so is one that threw where failures are recorded; a call
\* that was kept back or is still under way is not.  A record of the call says refusal
\* only of an abstention, a failure or an answer that did not end plainly; the record of
\* a violation says it always, also of a call that was let by and succeeds.  Of a tool that
\* returned nothing and of a stream that was left it is not said that they are recorded.
RecordedOnce ==
    \A c \in Calls :
        LET call == calls[c]
            begun == IF strict /\ call.hook.gated THEN <<"gate">>
                     ELSE IF call.verdict = "logged" THEN <<"violation">> ELSE <<>>
            told == \/ call.phase = "returned" /\ call.hook.mints # {}
                    \/ call.phase = "threw" /\ call.hook.failures
            untold == call.phase \in {"idle", "refused", "blocked", "running", "streaming"}
        IN  /\ Kinds(c) \in {begun, begun \o <<"call">>}
            /\ told => Kinds(c) = begun \o <<"call">>
            /\ untold => Kinds(c) = begun
            /\ \A i \in DOMAIN log[c] :
                log[c][i].refusal =>
                    \/ log[c][i].kind = "violation" \/ call.phase \in {"threw", "refused"}
                    \/ log[c][i].kind = "call" /\ (~call.plain \/ Abstains(call.hook))

\* In neither mode do more than Limit tool calls pass without a violation within any
\* Span of the clock; in fail-secure mode this bounds the calls that run, but for those
\* a rule lets by.
Within(t) ==
    {i \in DOMAIN attempts :
        attempts[i].verdict = "run" /\ t - Span < attempts[i].time /\ attempts[i].time <= t}
VelocityHeld == \A t \in 0..clock : Cardinality(Within(t)) <= Limit

\* Nor do more than MaxDepth pass of consecutive attempts of one tool, whichever of the
\* attempts between them were refused, and for whatever reason.
InRow(i, j) == {k \in i..j : attempts[k].verdict = "run"}
DepthHeld ==
    \A i, j \in DOMAIN attempts :
        (\A k \in i..j : attempts[k].tool = attempts[i].tool)
            => Cardinality(InRow(i, j)) <= MaxDepth
=============================================================================
