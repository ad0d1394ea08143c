--------------------------------- MODULE Hooks ---------------------------------
(***************************************************************************)
(* One firing of the hooks of an event, on the daemon's runtime or from a      *)
(* command.  Sync hooks are run one after the other and can refuse what they    *)
(* gate; an async hook is started, and a task of the runtime gives it its input. *)
(* A command's runtime runs only while the firing itself waits for something.   *)
(***************************************************************************)
EXTENDS Naturals, Sequences

CONSTANTS
    Configs,    \* lists of hooks: the global file before the project's
    Callers,    \* "daemon" or "command"
    MaxHooks    \* bound on the hooks of a list

\* What a hook's file says of it, and what its program does: it reads its input or
\* not, writes more than a pipe holds before it has read on and before it ends, or
\* not, and ends by itself, with a code, or never.
Hook == [enabled : BOOLEAN, accepts : BOOLEAN, sync : BOOLEAN, timeoutAborts : BOOLEAN,
         starts : BOOLEAN, reads : BOOLEAN, talks : BOOLEAN,
         exit : {"zero", "one", "two", "never"}]

ASSUME HooksAssumption ==
    /\ MaxHooks \in Nat
    /\ \A c \in Configs : c \in Seq(Hook) /\ Len(c) <= MaxHooks
    /\ Callers \subseteq {"daemon", "command"}

VARIABLES
    hooks,      \* the hooks of the event that match, in order
    caller,     \* whose firing it is
    large,      \* the input does not fit into a pipe
    at,         \* the hook the firing has come to
    firing,     \* "next", "feeds" or "awaits" the hook it is at, "ended", "gone"
    outcome,    \* "ok", "softFail" or "aborted"
    process,    \* per hook: "none", "running" or "ended"
    input       \* per hook: "none", "owed" by a task, "given" or "lost"

hvars == <<hooks, caller, large, at, firing, outcome, process, input>>

\* The enabled hooks whose filter accepts the event, in the order of the files.
Matching(config) ==
    LET kept[n \in 0..Len(config)] ==
            IF n = 0 THEN <<>>
            ELSE IF config[n].enabled /\ config[n].accepts THEN Append(kept[n - 1], config[n])
            ELSE kept[n - 1]
    IN  kept[Len(config)]

Here == hooks[at]

HooksTypeOK ==
    /\ hooks \in {Matching(c) : c \in Configs} /\ caller \in Callers /\ large \in BOOLEAN
    /\ at \in 1..(Len(hooks) + 1)
    /\ firing \in {"next", "feeds", "awaits", "ended", "gone"}
    /\ outcome \in {"ok", "softFail", "aborted"}
    /\ process \in [DOMAIN hooks -> {"none", "running", "ended"}]
    /\ input \in [DOMAIN hooks -> {"none", "owed", "given", "lost"}]
-----------------------------------------------------------------------------
Stays == UNCHANGED <<hooks, caller, large>>

\* The first soft failure is kept; an abort ends the firing.
Result(result) ==
    /\ outcome' = IF result = "aborted" \/ outcome = "ok" THEN result ELSE outcome
    /\ IF result = "aborted" THEN firing' = "ended" /\ UNCHANGED at
                             ELSE firing' = "next" /\ at' = at + 1

Started(how) ==
    /\ process' = [process EXCEPT ![at] = "running"]
    /\ input' = [input EXCEPT ![at] = how]

NotStarted ==
    /\ firing = "next" /\ at <= Len(hooks) /\ ~Here.starts
    /\ Result(IF Here.sync THEN "softFail" ELSE outcome)
    /\ Stays /\ UNCHANGED <<process, input>>

StartSync ==
    /\ firing = "next" /\ at <= Len(hooks) /\ Here.starts /\ Here.sync
    /\ Started("none") /\ firing' = "feeds"
    /\ Stays /\ UNCHANGED <<at, outcome>>

StartAsync ==
    /\ firing = "next" /\ at <= Len(hooks) /\ Here.starts /\ ~Here.sync
    /\ Started("owed") /\ at' = at + 1
    /\ Stays /\ UNCHANGED <<firing, outcome>>

\* The input is written before the timeout runs, and the output of a sync hook is read
\* only after it: a hook whose output fills its pipe reads and ends no further.  What
\* fits into a pipe need not be read; the writing fails when the hook has ended, and
\* that is ignored.
Feed ==
    /\ firing = "feeds"
    /\ ~large \/ (Here.reads /\ ~Here.talks) \/ process[at] = "ended"
    /\ input' = [input EXCEPT ![at] = IF process[at] = "ended" THEN "lost" ELSE "given"]
    /\ firing' = "awaits"
    /\ Stays /\ UNCHANGED <<at, outcome, process>>

OutputIsFull(i) == hooks[i].sync /\ hooks[i].talks /\ i = at /\ firing = "feeds"

\* The output of an async hook goes nowhere, and never fills.
Exits(i) ==
    /\ process[i] = "running" /\ hooks[i].exit # "never" /\ ~OutputIsFull(i)
    /\ process' = [process EXCEPT ![i] = "ended"]
    /\ Stays /\ UNCHANGED <<at, firing, outcome, input>>

Collect ==
    /\ firing = "awaits" /\ process[at] = "ended"
    /\ Result(CASE Here.exit = "zero" -> "ok" [] Here.exit = "two" -> "aborted" [] OTHER -> "softFail")
    /\ Stays /\ UNCHANGED <<process, input>>

\* Mutant: a hook may take as long as it likes.
NeverTimesOut == FALSE /\ UNCHANGED hvars

\* The hook is killed.
TimesOut ==
    /\ firing = "awaits" /\ process[at] = "running"
    /\ process' = [process EXCEPT ![at] = "ended"]
    /\ Result(IF Here.timeoutAborts THEN "aborted" ELSE "softFail")
    /\ Stays /\ UNCHANGED input

RuntimeRuns == caller = "daemon" \/ firing \in {"feeds", "awaits"}

FeedAsync(i) ==
    /\ RuntimeRuns /\ input[i] = "owed"
    /\ hooks[i].reads \/ ~large \/ process[i] = "ended"
    /\ input' = [input EXCEPT ![i] = IF process[i] = "ended" THEN "lost" ELSE "given"]
    /\ Stays /\ UNCHANGED <<at, firing, outcome, process>>

End ==
    /\ firing = "next" /\ at > Len(hooks)
    /\ firing' = "ended"
    /\ Stays /\ UNCHANGED <<at, outcome, process, input>>

\* A command ends, and its runtime with it; async hooks live on.
Leave ==
    /\ caller = "command" /\ firing = "ended" /\ firing' = "gone"
    /\ input' = [i \in DOMAIN hooks |-> IF input[i] = "owed" THEN "lost" ELSE input[i]]
    /\ Stays /\ UNCHANGED <<at, outcome, process>>

HooksInit ==
    /\ hooks \in {Matching(c) : c \in Configs} /\ caller \in Callers /\ large \in BOOLEAN
    /\ at = 1 /\ firing = "next" /\ outcome = "ok"
    /\ process = [i \in DOMAIN hooks |-> "none"]
    /\ input = [i \in DOMAIN hooks |-> "none"]

Fire == NotStarted \/ StartSync \/ StartAsync \/ Feed \/ Collect \/ TimesOut \/ End

HooksNext ==
    \/ Fire \/ Leave
    \/ \E i \in DOMAIN hooks : Exits(i) \/ FeedAsync(i)

\* Timers run out, tasks are scheduled, and a program that ends does so.
HooksFairness ==
    /\ WF_hvars(Fire)
    /\ \A i \in 1..MaxHooks : WF_hvars(i \in DOMAIN hooks /\ (Exits(i) \/ FeedAsync(i)))

HooksSpec == HooksInit /\ [][HooksNext]_hvars
-----------------------------------------------------------------------------
\* A hook that, given more than a pipe holds, neither takes it all nor ends: it ignores
\* its input for ever, or it waits for its output to be read.
Blocks(i) ==
    /\ large /\ hooks[i].sync /\ hooks[i].starts
    /\ hooks[i].talks \/ (~hooks[i].reads /\ hooks[i].exit = "never")

\* What a hook does cannot hold up what it gates for ever, but for one that blocks the
\* feeding: the timeout covers the waiting only.  And on the daemon's runtime an async
\* hook that waits for its input gets it, which a command does not promise.
EveryHookIsServed ==
    /\ (\A i \in DOMAIN hooks : ~Blocks(i)) ~> (firing \in {"ended", "gone"})
    /\ \A i \in 1..MaxHooks :
           (caller = "daemon" /\ i \in DOMAIN hooks /\ input[i] = "owed" /\ hooks[i].reads)
               ~> (i \notin DOMAIN hooks \/ input[i] # "owed")
=============================================================================
