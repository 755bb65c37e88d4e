# AIRECE in TLA+

AIRECE is a command-line analyzer for PE/x86-64 binaries. A command opens an
*analysis session* (load, CFG, inventory), asks it for views of functions or
for a directed flow, prints the answer and exits with a stable code: 0 complete,
1 failed, 2 usage, 3 partial. Beside it the repository has a Python harness that
lets a language model use the analyzer through a tool protocol and scores what
it answers.

This directory models the parts of it that are hard to test: what happens when a
deadline, a signal or a budget ends something in the middle, and what an answer
can be relied on for afterwards. Paths below are relative to the repository.

## 1. The system and its parts

| part | source | state | operations | modelled |
|---|---|---|---|---|
| command entry, cancellation | `src/cli/main.cpp:34-53,1365-1399` | global token and pointer, SIGINT handler | guard constructor and destructor, handler, dispatch | `SessionOpen` |
| session | `src/session/analysis_session.cpp` | options, loaded binary, CFG, recoveries, completeness, own token | `open`, `open_bytes`, `build_cfg`, `build_inventory`, destructor, views | opening and closing: `SessionOpen` |
| deadline watchdog | `src/session/analysis_session.cpp:79-109` | thread, mutex, condition variable, `finished_` | constructor, worker, destructor | `SessionOpen` |
| directed flow | `src/semantic/directed_flow.cpp:1603-1813` | one result: completion, verdict, influences, candidates, queries | resolve, taint, search, judge, check | `DirectedFlow` |
| tag propagation | `src/semantic/directed_flow.cpp:316-346,757-952,1647-1681` | tags of each value, states | seed, pass over operations and block arguments | `TagPropagation` |
| path search | `src/semantic/directed_flow.cpp:1004-1096` | queue of items with stack, depth and history | take an item, follow its edges | `PathSearch` |
| symbolic translation | `src/semantic/directed_flow.cpp:1098-1440` | memo table, active set | translate a value, constrain, check | control only |
| enrichment | `src/semantic/enrichment.cpp:122-374`, `api_model.cpp` | completion, taints, states, queries | symbolic loop, three taint loops | `Enrichment` |
| `fn` and `taint` commands | `src/cli/main.cpp:663-770,1159-1196` | exit code | view, enrich, answer | `FunctionCommand`, `Enrichment` |
| other commands | `src/cli/main.cpp` | BFS and slice work lists | `path`, `slice`, `calls`, `xrefs`, `evidence` | no |
| caches | `src/session/decode_cache.cpp`, recoveries in `src/semantic` | entries by address; views by function and options | decode, view, clear | no |
| expression recovery | `src/semantic/expression_view.cpp` | counters of one text | render a value within budgets | `ExpressionView` |
| variable recovery | `src/semantic/variable_view.cpp` | candidates, roles | collect, propagate, merge, name | `VariableView` |
| control recovery | `src/semantic/control_view.cpp` | order, regions, transfers | order, loops, selections, sequences | `ControlView` |
| compact view | `src/semantic/compact_view.cpp` | names, offsets, statements | carry names, list, sort, cut | `CompactView` |
| emitters | `src/emit` | text under a byte budget | lines, JSON, shrinking | no |
| harness: model client | `benchmarks/airece_bench/lmstudio.py` | transcript, tool calls, turns | turn, tool call, forced final, repair | `ToolProtocol` |
| harness: backends | `benchmarks/airece_bench/backends.py`, `ghidra.py` | results of earlier calls | execute, bound a result | the cache of results: `ToolProtocol` |
| harness: runner | `benchmarks/airece_bench/runner.py`, `util.py` | record files, manifest, summary | plan, execute, resume | `RunnerResume` |
| harness: corpus | `benchmarks/airece_bench/corpus.py` | binaries, corpus manifest | build, load | its writes: `RunnerResume` |
| harness: prompts, scoring | same directory | none | sequential, pure | no |
| evaluation tools, version | `tools`, `src/version.cpp` | none | sequential | no |

Vendored or external: Zydis, Z3, and the XAIR libraries (`xair`, `xair_cfg`,
`xair_sym`), of which the repository holds the uses only. A call into them is a
nondeterministic choice over the outcomes the calling code distinguishes.

**How they interact.** The guard in `main` creates the global token; option
parsing hands it to the session, to flow and to enrichment. The session may own
a token instead. The watchdog thread, started in `open` and joined when `open`
returns, requests the session's token. The CFG build, `stopped()` and
`find_paths` poll a token. `directed_flow` reads the session (module, CFG,
completeness) and calls the taint pass, the search and the solver one after the
other; they share one `DirectedFlowResult`, whose `completion` and `verdict` five
places write. A function's views are recovered one from the other: variables, then
control regions, then the compact view, which carries the variables' names over
block parameters and stack slots, lists statements in the order of the blocks and
renders their operands with the expression recovery. `enrich_function` runs over
the compact view, with the solver for its branches and with taint over its
operations. The harness runs the executable as a child process per tool call;
its runner builds the corpus, opens one backend and one model session for each
job that has no record yet, and writes a file after each. Invocations of the
runner share nothing but those files.

**What is hard.** Two threads and a signal handler share tokens with three
owners. The views say things about a
program whose values nobody computes: a text that moves a load, a name carried
along a join, a counter read off one block are right or wrong only against what
the function does when it runs. Every phase of a
flow query can be stopped between any two steps by three causes (token, clock, `max_states`) and two phases by further budgets, and
the verdict must say no more than what was finished. The propagation merges tags
in an order that depends on the program. The search prunes by a key that leaves
the return stack out. In the harness the other side of the protocol is a language
model, which may do anything at any turn, and a run of many hours is killed and
resumed. PROJECT.json lists each hazard at its line.

**What makes each part correct.** *Opening*: no thread or signal handler uses a
dead token; release order; no leak on a failure path; a deadline shows in the
completeness; a command ends. *Flow*: each verdict is what the finished work
supports; a degraded completion stays; the budgets hold for all pairs together.
*Tags*: a complete pass is the fixpoint, at least depths; it terminates; the
state count is exact. *Search*: only program paths; shortest first; a reachable
goal is found; it ends. *Views*: a text, a name or a counter agrees with every run of
the function; no block or call is lost; what is called complete is all there is.
*Enrichment*: a degraded completion is not hidden, no reported flow is made up.
*Caches*: a hit equals what a miss computes. *Harness*: no call
beyond the budget, no session without end, no call refused as a duplicate of one
that brought nothing; a resumed run repeats and loses no job, and says complete only of
what is.

## 2. Modules

| module | what it is |
|---|---|
| `SessionOpen` | the command thread, the watchdog thread and SIGINT; checked directly |
| `SessionOpenProofs` | its theorems |
| `DirectedFlow`, `MCDirectedFlow` | the control of a flow query, and its instance |
| `DirectedFlowProofs` | its theorems, and that it implements `FlowAnswer` |
| `FlowAnswer` | the abstract specification of a flow query |
| `PathSearch`, `MCPathSearch` | `find_paths`, and the graphs it is checked on |
| `PathSearchProofs` | its theorems |
| `TagPropagation`, `MCTagPropagation` | the taint loop, and the programs it is checked on |
| `TagPropagationProofs` | its theorems |
| `TagTerminationProofs` | that the taint loop ends for every program, with a bound |
| `XairModule` | the part of a lifted module that the views read, and its control flow graph (external) |
| `ExpressionView`, `VariableView`, `ControlView`, `CompactView` | the four recoveries, as operators on a module and options |
| `FunctionViews` | composes them as `AnalysisSession` does, and runs the function that is viewed |
| `Enrichment` | the loops of `enrich_function` over a request, and the exit code of the command |
| `EnrichmentProofs` | its theorems |
| `FunctionCommand`, `MCFunctionViews` | the views and the enrichment of what they list, composed, and the functions all of it is checked on |
| `ToolProtocol`, `MCToolProtocol` | one model session of the harness, and its instance |
| `ToolProtocolProofs` | its theorems |
| `RunnerResume`, `MCRunnerResume` | the runner over its output directory, and its instance |
| `RunnerResumeProofs` | its theorems |

Names follow the source where TLA+ allows. An operator introduced by "Variant
of" is not part of a model: it is what a plausible mistake would make of the
definition that follows it, and shows that a property notices it.

### SessionOpen

`pc` is the command thread's place from the guard's constructor to the end of
`main`; `worker` is the watchdog thread's; the signal handler is the action
`Signal`, enabled wherever the handler is installed. The wait of the watchdog is
five actions, because the order of the timeout, the predicate and the mutex is
the point: the worker tests `finished_` before it waits, can time out or wake
for no reason, takes the mutex again, tests again, and only then requests the
token, still under the mutex. The destructor's assignment, notification and join
are separate actions. The statements of `~CancelTokenGuard` are separate
actions, since a signal can come between any two, and so are the handler's test of
the pointer (`SignalTest`) and its request (`SignalRequest`): `inFlight` counts the
handlers between the two, which may be on any thread and go on after the command
thread has cleared the pointer.

`live` is the set of parts the session holds; `Needs` says which part keeps a
reference to which. Contents are abstracted: loading, building the CFG and the
inventory succeed or fail, `complete` is what the CFG's summary allows given the
token the build polls. The loader may succeed or fail whatever its token: nothing
in the repository says when it looks at it. `UseSession` stands for all commands: those
that only look things up (`ShowSession`), those whose text has limits (`ShowView`),
the queries, which poll a token and may stop at a limit or not reach their goal
(`Query`, as `path` does with exit code 3 on a complete session), and every refusal.
`answer` is how the command's own work ended.

### DirectedFlow

One action per phase step of `directed_flow()`. The ground truth (`facts`: what
the full taint fixpoint has; `feasible`: which bounded paths are satisfiable) is
chosen initially and never changes, so a property can compare an answer with it.
`Cancel` and `Expire` can come at any step; the code polls them where the
model's guards do. `full` is `result.states >= max_states`.

* `TaintFixpoint` and `TaintStopped` are the two ends of the propagation loop,
  which `TagPropagation` models pass by pass.
* `FindPath`, `EndSearch`, `LimitSearch` are what the two nested loops over
  pairs and `find_paths` do, which `PathSearch` models item by item. The code
  handles the paths of a pair after the search returns; the model handles each
  as it is found, which is the same because the search does not read influences.
  `Enough` is the guard before each path that is handled and after each pair.
* `Judge` is the answer that needs no solver, `Check*` one iteration of the
  checking loop by its outcome. `CheckUntranslatable` stands for every early
  return of `run_symbolic` and leaves `verdict` as it was, as the code does.
* `Exit` is the command's exit code.

The solver is trusted: an unsatisfiable answer is given only for a path that is
not feasible. `seen`, `refuted` and `evidence` are history.

`FlowAnswer` is what a caller sees: while a query is open it learns facts and has
paths refuted, may be degraded and is never restored, and replies once, with an
exit code and a verdict that are `Justified` by what it has learned. The refinement
mapping hides the phases, the candidates, the quota and the record of the solver:
`known` is `tags`, `asked` is `queries`, `degraded` is a completion other than
complete, and the reply is the verdict and the exit code once `pc = "done"`.

### PathSearch

The queue holds items with their own return stack, path, depth and history, as
in the code. A graph is a function from nodes to sequences of edges; indirect
calls are calls, all other kinds are jumps. `Realisable` and `Reachable` say
what a path of the program and a reachable node are without the search's stack
and history: matching calls and returns by counting, and reachability with a
returning call as one step.

### TagPropagation

`AddTag`, `Transfer`, `Propagate` and `PropagateBlocks` are the functions of the
same purpose in the code. `Merge` keeps the least depth and the widest range;
`Moved` is the value `add_tag` returns for a merge. An operation carries what
the code looks up for it (a constant operand, a resolved stack slot, the
parameters and returns of a direct callee). A tag's list of transform names is
text and left out. Where the code iterates a vector of tags the model folds over
a set: the merge does not depend on the order, and only which tag is refused at
`max_states` does. `Reachable` is the reference definition and does not go through
a program in any order: `Within[n]` is what flows where in n moves, a move is one
operation, block argument, call or return, and `Reachable` is `Within[n]` at the
first n after which nothing is added.

### XairModule and the four views

The views are pure functions of a lifted module, so they are operators, in the
order of the code's phases, and their budgets are fields of an options record `o`.
A text is a sequence of tokens with the printer's precedences; `ReadsAs` in
`ExpressionView` is the reference: a reader who knows the usual precedences and
evaluates what is printed. `omitted` and the counters of `listing` are the code's.

Abstracted, in `ExpressionView`: widths are two or three bits and the binary
operators are those of `TokenOf`; string literals, API annotations and the final
character limit are left out. In `VariableView`: an access has one width per
operation; symbol, string and import tables are one set of symbols with their
origin; a storage place is a stack offset or a constant address. In `ControlView`:
dominators, postdominators and the reverse postorder are XAIR's, stated by what
they mean and computed once for a function (`Analysis`, empty where it fails). In `CompactView`: the order in which an `unordered_map` of block
nodes is walked is the parameter `walk`, and `NameValues` chooses it freely, since
the language leaves it open; coverage percentages, fingerprints and annotations
are text.

What the library refuses is `unread`: blocks, ends of blocks and operations that it
does not give out. The recoveries pass them over, as the code does. A jump table has
its entries, how many its bounds span and whether its resolution was limited;
`indirect` has the number of targets found for a call through a pointer.

### FunctionViews

`ShowExpression` is one expression request; `RecoverVariables`, `RecoverControl`,
`NameValues` and `ListStatements` are the phases of a compact view. `Enter`,
`Operate` and `Leave` are no code of the repository: the function that was viewed
runs, from every input of the problem, a block's operations one by one and its
arguments at once, and the properties compare its `frame` with what the views
said. A call returns any value and may change any memory. Memory is made of cells
of two bits; a store writes as many as its value is wide, and a load reads as many
as it needs, so that accesses of different widths overlap in part. A jump table goes
to any entry of it, and, unless all of it was resolved, out of the function.
`MaxBlocks` bounds the blocks a run enters.

### Enrichment

`call` is what `enrich_function` is called with: the options, the listed statements
(a branch on a constant, on another condition, or no branch) and the operations of
the function in the order of its blocks, each with the values it takes and gives and
with what the model of its import says. `TakeRequest` is the call, for any request.
`phase` walks through the four loops and `place` is the position a loop has come to.
Each loop polls the token, three of them the clock, two the state budget and one the
query budget, where the code does (`raised` is what token and clock say), and a
loop that is left early does not keep the next from starting (`Break`, `NextLoop`).
What the solver and the expression translator make of a branch is a choice
(`Answer`): an answer, a constant, unsupported, timeout or unknown. A taint is a
pair of a value and the source call it came from; `Taint` replaces whatever a value
was tainted by before, as the assignment to the map does. The taint library may
refuse a source or an input of a sink; the code passes it over, and `unmarked` and
`unheard` remember it. `AnswerCommand` is the
exit code of the `fn` command's views and of `taint`.

The reference for what is found does not speak of the loops: a *chain* is a set of
operations, taken in their order, each of which takes a value of the one before it
(`IsChain`), and `Made` is what it makes of what a source has written.

### FunctionCommand

Composes the two: the views are recovered (`FunctionViews`), then `Handed` makes the
request out of the listing, the function's blocks and the API models, and the steps of
`Enrichment` follow. `Visited` says what of an operation the loops look at: it reads
memory as one value and changes it as another, and a source taints its result and
the arguments it writes; a block whose operations cannot be read is left out. `Dependences` is the reference for `TaintComplete`: all ways
a value depends on another, operations and arguments of blocks, in any order.

### ToolProtocol

One job of the runner: opening the backend and the runner's own first call
(`Setup`), then the turns of `run_json_protocol` or `run_tools`, then the final
generation. `mode` is how the job was started (transport, native track, separate
final generation, validated answer); `Modes` are the combinations that the runner
and `validate_protocol.py` use. `StartTurn` and `StartFinal` are the tops of the
loops with their three budgets; `Deliver`, `Retry`, `RequestFails` are
`_request`; each kind of response is an action (`Final`, `TakeAsFinal`,
`ProtocolError`, `MalformedTool`, `CallTool`, and the `Native*` actions for
function calls). The model chooses freely among them at every turn.

`backend` is `Backend._calls` and `_call_number`; a request is the canonical key
of that cache. Abstracted: a text is what validation and normalisation make of it
(`Texts`), and the bytes of a prompt are not modelled: how many results a prompt
shows whole depends on everything else in it (`lmstudio.py:654-689`), down to none
(`benchmarks/tests/test_harness.py:556-576`). A result is `listed` once a prompt has
had it, whole or as the hash and size that stand for it. `expired` says that the
task's time is used up; it can come to hold whenever something was waited for.
`events` and `answer` keep what the record keeps.

### RunnerResume

The variables of `disk` are the files of the output directory, those of `process`
what an invocation has in memory. `Invoke` starts one with any arguments;
the corpus is built binary by binary (`BuildArtifact`) and its manifest written
last; the jobs are planned (`Plan`), skipped when their record file exists, and
run; summary, manifest, report and list are written in the order of the code.
`Crash` is a kill or an error at any point; it leaves the files as they are.
`atomic_write_text` replaces a file in one step, so a write is one action. A
job is what `run_id` is a digest of, and the digest is taken to be injective. A
binary is its contents (`Builds`), since case ids are made from its hash. Two
runners over one directory at a time are not modelled: nothing in the code
expects them. The order of jobs is any order, which covers the seeded shuffle.

## 3. Runs

| run | module, cfg | instance | shows |
|---|---|---|---|
| `session_open` | `SessionOpen` | two signals; with and without token, deadline, IR | all properties below, and that the command ends |
| `directed_flow` | `MCDirectedFlow` | two pairs with one and two paths, limits 1-3, budgets 0 and 1 | what each verdict can be relied on for |
| `path_search` | `MCPathSearch` | 108 graphs of five nodes, depths 0-2, with and without `max_states` | only program paths, none missed, termination |
| `tag_propagation` | `MCTagPropagation` | all three-operation SSA programs from a menu of twelve, four block-argument shapes, depths 0-2, with and without `max_states` | the fixpoint is exact |
| `flow_complete_decided` | `MCDirectedFlow`, `FlowCompleteIsDecided` | limit 3, no query budget | a finding |
| `tool_protocol` | `MCToolProtocol` | three transports, three requests, three calls | budgets, duplicates, and that a session ends |
| `tool_digest_supplied` | `MCToolProtocol`, `ToolDigestSupplied` | function calls only | a finding |
| `function_views` | `MCFunctionViews` | 2,660 problems: functions of six families, each with its options | views agree with runs; enrichment accounts for what it reports |
| `statement_text` | `MCFunctionViews`, `StatementTextCurrent` | straight-line programs, their statements | a finding |
| `taint_complete` | `MCFunctionViews`, `TaintComplete` | functions that read and use input | a finding |
| `runner_resume` | `MCRunnerResume` | two cases, two contents of a binary, three invocations, two kills | nothing repeated or lost; complete is complete |
| `runner_summary_within_plan` | `MCRunnerResume`, `RunnerSummaryWithinPlan` | one case, up to two repetitions | a finding |

**Bounds.** *Signals*: two, so that one can come while another's effect is still
there; the theorems hold for every number. *Flow*: two pairs are enough for one
pair to use up another's quota and for an influence of one to meet a path of the
other; two paths in a pair are enough for a candidate to follow a refuted, an
unknown or an untranslated one; limit 3 is more than all paths, 1 is fewer than
each. The theorems hold for every number of pairs and paths. *Search*: five
nodes in two functions hold a loop, a second call of one callee, a call without
a continuation, a tail call, direct and mutual recursion; depth 2 is one more
than the static nesting. *Tags*: three operations and a loop of block arguments
are enough for a tag to arrive at one value along two ways of different depth in
either order, and to come around again with another range; a buffer of four
bytes and loads of two let a range reach the end. *Views*: five
operations let a load, a write, a use and a negated or shared use of that use
follow each other, in every well-typed order of the menus; four blocks with two
branches hold loops with two latches, irreducible graphs, a switch with a doubled
case, a shared join and a block outside of the function or of the lifter; three
blocks hold a slot that is written twice and read on two ways, or arguments that
are exchanged in a loop; a slot that is written with two cells, or one, or four, and
read with another number of them has accesses that overlap in part; a jump table is
whole, leaves the function, or is resolved in part or not at all; each of a block, an
end of one and an operation cannot be read; words of two to four bits wrap around. A run enters five
blocks, one more than the largest graph has. *Enrichment*: seven operations in
three blocks put a source, an operation, a store, a branch and a sink in and
against the order of the list; the budgets are small enough to end the loops that have one.
*Protocol*: three calls
of three requests let a call fail, be made again and be repeated; the checked-in
budget of calls is larger but adds only more of the same turns, and two function
calls in one response are enough for the budget to end between them. *Runner*: three
invocations are a run, a cut-off one and a resumption, with a rebuild in any of
them; two kills can fall in two of them or in one and its resumption; two cases
let a kill fall between two records and two binaries; a rebuilt binary differs
or not. Repetitions and variants multiply the jobs without adding a dependency,
except in the selection of records, where the finding's run has two repetitions.

**Fairness.** `SessionOpen` and `ToolProtocol` have a liveness property. In
`SessionOpen`, `WF(Main)`: the
command thread is scheduled, and each wait of it is a guard. `WF` of the
worker's own steps (first test, test after a wake-up, request): a thread that
can take a mutex gets it. Nothing is assumed of the timeout or of a spurious
wake-up, so `CommandEnds` does not rest on the deadline ever passing: the
notification alone must end the wait. A model session is one thread, and what it
waits for is bounded (`urlopen` and `subprocess.run` are given timeouts), so
`WF(Next)`; nothing is assumed of the model, nor that the wall clock runs out.
`PathSearch` and `TagPropagation` state
termination as a bound (`PathsBounded`, `PassesBounded`; for every program
`TagPassesEnd`), which is stronger and needs no fairness.

### Properties

* `WorkerTokenAlive`, `DestroyedTokenWindow`: who can touch a dead token. The
  second also records what can happen: `main.cpp:48-50` destroys the token before it
  clears the pointer, and the handler (`:36-37`) tests the pointer before it
  requests, so a handler that tested it before it was cleared may request a
  destroyed token, however long afterwards. The property says that these are
  the only ones: once the pointer is cleared no handler gets past its test.
* `NoLateCancel`, `CompletenessExplained`: when a deadline shows
  and where. The second shows the price of one shared token: a deadline that fires
  after the CFG was built leaves a session that says complete and whose queries
  are all cancelled. It does not speak of answers that fall short by themselves,
  such as a path that is not found within the limits (`main.cpp:1338-1345`).
* `DependenciesHeld`, `NothingLeaked`: ownership on every path. The first names the
  one part that does outlive what it refers to, see section 5.
* `FeasibleHasEvidence`, `InfeasibleTrusted`,
  `NoFlowTrusted`, `CompleteIsFixpoint`: for each verdict, the strongest
  statement we found that the code keeps. The two "trusted" ones are weaker than
  the documents; section 5 says how much.
* `CandidatesBounded`: the budget over all pairs. `ImplementsFlowAnswer`: over all
  phases nothing is unlearned or restored, and each reply is justified; it contains
  that no query without an answer is hidden by an infeasible verdict.
* `FoundSound` (the paths are the program's, within the depth, shortest first),
  `GoalFound`, `PathsBounded`.
  `GoalFound` is the answer to the pruning by `(depth, node)`: paths through a
  second call of a callee are lost, the goal is not, because the call-return edge
  steps over a callee that was visited.
* `FixpointExact`, `PassesBounded`. `FixpointExact`
  leaves out pointers that stopped being exact: `add_tag` does not report that as
  a change (`directed_flow.cpp:335,340`), so a load that was already passed in a
  loop can keep a range that is too narrow.
* `TextFaithful`: a text, read with the usual precedences, has the value of what it
  stands for. It leaves out two kinds of text that the code gets wrong:
  `negate_boolean` (`expression_view.cpp:407-421`) turns around the first comparison
  operator of the text even if it belongs to an operand, and a selection prints a
  selection in its condition without parentheses (`:697`).
* `VariablesSound`, `NamesHold`: an argument's name is only given to what comes from
  that argument's register, or holds its value at run time. `NamesHold` is stated
  for functions in which the names agree where paths meet (`Settled`), all stores go
  to known slots (`KnownStores`) and each slot is stored whole, in one width, and
  unconverted (`WholeSlots`). Outside of these it does not hold: the last path walked
  gives its name to the parameter, and a load is named for what was stored at its
  address although the widths differ (`compact_view.cpp:596-609`) or what was stored
  is a truncation of the argument (`:635-656`). Each of the three conditions is
  needed: without one the run finds such a function.
* `RegionsCover`: no block is lost; a run goes by the transfers that are shown,
  continues a loop just where they say so, and never leaves the function by a jump
  table that is called complete. `SequencesRunThrough`: a sequence has no way in or out.
* `InductionStepHolds`: a counter steps as it is said to. It is for loops with one
  latch and an update that is the counter plus or minus a constant; the code also
  reports updates it reaches through a cast or another value.
* `ListingAccounted`: the calls that are shown are those of the page, one after the
  other, and with those counted as omitted all there are; the statements follow the
  blocks; and a listing that calls itself complete has every operation that matters
  once and the condition of every branch, of what the library lets it read: what it
  does not is skipped without a count (`compact_view.cpp:743,749,922`).
* `EnrichmentAccounted`: the budgets hold; every reported flow is a chain of operations
  from what a source has written to what a sink takes; and a complete answer has asked
  about every listed branch and has a flow into each sink that such a chain leads to,
  whatever the loops after an interrupted one did and although a value that is
  tainted anew forgets what it was tainted by. What the taint library refuses is left
  out (`Heard`, `unmarked`), and nothing else: the code passes a refused source or
  sink input over and says complete all the same. The agent and disassembly views take
  their exit code without the enrichment's completion (`main.cpp:732-738`), so it
  speaks of the other two.
* `ClosedRunsNothing`, `TurnBudgetNeedsWaste`, `SessionEnds`: what a model can
  make of its budgets. The second is the point of the two or three turns the loop
  has beyond the calls: a session that wastes none of them is asked for its
  answer. `DuplicateHasResult`: a request is called a duplicate only when an earlier
  call brought its result, so a call that failed can be made again. It does not say
  that the model has seen the result whole: compaction may leave its hash alone.
* `WorkLostPerCrash`, `CompleteCoversPlan`: resumption, from any files any
  sequence of kills leaves. `RecordNamesBinary`: a record's binary hash comes
  from the corpus manifest, not from the file that was analysed; the property
  says that only a corpus build cut off half-way makes the two differ.

## 4. Theorems

Proved by TLAPS for every value of the constants, from the named assumptions of
the modules alone: `MaxSignalsAssumption`, `FlowAssumption`, `SearchAssumption`,
`TagAssumption`, `ProgramAssumption`, `ProtocolAssumption`, `RunnerAssumption`.
They say that the sets are finite and the limits are numbers, that a graph and a
program have the shape the code builds (nodes are numbered, a store has three
inputs, a seed has depth 0), and that the runner's own call is a request. TLC
evaluates each on the run's instance.

`SessionOpenProofs`: `TypeCorrect`, `WatchdogTokenAlive`, `NeverLate`,
`OneWindow`, `NeedsHeld`, `LeavesNothing`, `PartialHasACause`. The properties about tokens are not
inductive: that a worker's token is alive depends on how far both threads and
the ownership have come. The strengthening says where in `pc` the watchdog can
run (it is started before the load and joined before the session can be
released), that `finished` is set from `notify` on, that a worker holding the
mutex has seen it unset, and which tokens live in which interval of `pc`. The
ownership proof adds that the parts held at each place of `pc` are closed under
`Needs`; the lemma `NextReleaseFirst` says that the part the destructor releases
next is the first of its order, so that no part left needs it; for the decode cache,
which goes with the members, it adds that the binary view was the last of that order.
`OneWindow` rests on where the pointer is set: the global token is alive until the
destructor has passed its first statement, and no handler is added to those in flight
once the pointer is null. `PartialHasACause`
rests on `Causes`: once the watchdog has fired the session's token is requested,
so a CFG that is built afterwards is not complete, and the caller's token is
requested by a signal or by that watchdog only.

`DirectedFlowProofs`: `FlowTypeCorrect`, `CandidatesWithinLimit`,
`FeasibleEvidence`, `ExitZeroIsFixpoint`, `DegradedStays`, `NoFlowIsTrusted`,
`InfeasibleIsTrusted`, `NoHiddenQuery`, `FlowImplementsAnswer`. Two invariants carry them. `FlowInv`
relates the phase with the completion (a taint pass that was stopped degraded
it), the search with its pair and quota, and the evidence with the last
candidate taken. `TrustInv` says what is known of each path: every path seen
whose taint reaches its target or its conditions is a candidate, every candidate
checked under a complete completion was refuted, and candidates are distinct, so
that counting queries counts refuted candidates. The refinement maps the initial
states and each action to a step or a stutter of `FlowAnswer`: every phase but the
last is `Learn`, the last one is `Reply`, and the two invariants justify it.

`RunnerResumeProofs`: `RunnerTypes`, `RunnerLosesLittle`,
`RunnerCompleteMeansCovered`, `RunnerRecordsNameBinaries`, `RunnerKeepsRecords`.
None of the properties is inductive, because a kill can leave any prefix of the
writes and only the process knows which. `RunnerInv` says what a process holds
between two of them: a session belongs to one job of `todo` without a record
(`ProcessScope`), a loaded corpus lists every case and a listed case has a file
(`CorpusScope`), a manifest that says running has this process's plan, of which each
job is in `todo` or has its record (`PlanScope`), and the corpus manifest is behind
the files only in a build or after one was cut off (`CorpusCurrent`).
`RecordsCounted` carries the count of paid sessions along with the finite set of
records. `RunnerKeepsRecords` is an action property: no step takes a record away.

`ToolProtocolProofs`: `ProtocolTypes`, `ProtocolTurnBudget`,
`ProtocolDuplicateHasResult`, `ProtocolClosedRunsNothing`. `ProtocolInv` adds to the
types where each variable can be non-trivial (`PhaseScope`), that a turn that is
over executed a call or is among the fruitless ones of the log (`TurnsCounted`), that
in the JSON protocol a duplicate in the log has closed the selection, that a call the
backend has cached is in the log as one that brought its result, before any duplicate
of it (`CachedIsLogged`, `DuplicateIsLogged`), and that in the JSON protocol a cached
result was listed by some prompt or will be by the next (`CachedIsListed`). The
backend, the event log and the transcript are written at different places, one of
them by the runner; the last three say that they agree.

`PathSearchProofs`: `SearchTypeOK`, `SearchPathsBounded`, `SearchFoundSound` (from
`SearchFoundIsRealisable`, `SearchFoundWithinDepth`, `SearchFoundShortestFirst`),
`SearchGoalFound`. The invariants are about the items of the queue.
`Walks`: an item's path leads along edges from the start to its node. `Remembers`:
its history has the key of every node of its path, once, so a path is no longer
than there are keys. `Stacked`: its stack holds the continuations of the calls of
its path that are still open, in order, where open is counted on the path alone;
with it each return leads where the program's return would. `CountsDepth`: the
item's depth is at least the number of open calls. `SearchOrdered`: the queue goes
from shorter paths to longer ones and no path of it or of `found` continues
another. `SearchExplores`, for the goal: while nothing is found, there is a set
of positions, those taken so far, that with the queued ones contains the start and
is closed under the steps of the program; when the queue is empty, all that is
reachable is in it, and the goal is not.

`TagPropagationProofs`: `TagTypes`, `TagFixpointExact`, `TagsAllReach`. The
inductive invariant `LoopInv` has five parts. `Typed`: one tag per key and value,
and `result.states` is their number. `Phases`: seeding counts as a change and only a
pass without one ends the loop complete. `OnlyReached`: the tags lie in every set
that has the seeds and is closed under the operations. `SeedsKept`: below the state
limit every seed is covered by a tag. `PassSettled`: as long as a pass has changed
nothing, every operation it went through has nothing left to add or widen, and
that stays so until the pass ends. At the end of a quiet pass the tags are thus a
closed set that holds the seeds. `Reachable` is shown to be the least such set
(`ReachableContains`, `ReachableLeast`) and to be attained at some finite n
(`ReachableClosed`: positions are finitely many, so the growing sets `Within[n]`
stop, by pigeonhole). One inclusion is `OnlyReached` at `Reachable`, the other is
`ReachableLeast` at the tags held. `TagsAllReach` needs the first one only and holds
however the loop is ended.

`TagTerminationProofs`: `TagPassesEnd`, `TagsOnlyGrow`. A loop of the program that
adds to a pointer produces a tag further on in every pass, so that the taint loop ends
without `--max-states` is not obvious. Two facts together give it. Offsets are bounded
(`InLadder`): a rung is the widest range of the seeds and the buffer plus, for each tag
there is, the furthest that one operation moves an offset. A merge keeps the lesser
begin, and an operation moves the begin, not the end, so only a tag with a new key
raises the begins, by one step, and ends are at most one step further than begins
(`Narrow`, kept by each addition as part of `Adds`). There is one tag per key and value,
and the keys are those of `Positions`, so the rungs in use are finitely many
(`TagsWithin`). Second, an addition that reports a change leaves a tag that no earlier one
covers (`Fresh`, part of `Grows`), so the set of what the tags cover (`Done`, a subset of
the finite `PassRoom`) grows strictly in every pass but the last (`PassCount`). Offsets
are numbers without a width here, as they are in the model.

`EnrichmentProofs`: `EnrichmentAccountedAlways`, `EnrichmentTypes`, `CutShortIsFinal`,
for every function and every request, so for whatever the views list. The
inductive invariant `EnrichInv` follows the loops. `TaintsMade`: what is tainted is
made by a chain of operations that had their turn, so the operation at whose turn a
taint is added is the last link of its chain. `TaintsSpread`: as long as no loop was
left early, all that chains of such operations make is tainted, by one source or
another. It says less than that each source's taint is kept, because it is not: a value
that is tainted anew loses its other sources, and only what matters for a sink, that it is
tainted, stays. `ChainExtends` and `ChainShortens` carry both from one operation
to the next: a chain with the operation is a chain without it whose last values it
takes. `FlowsMade` and `FlowsFound` are the same for the sinks, `BranchesAsked` for the
branches, and `PhasesOK` ties the exit code to the completion. `CutShortIsFinal` is an
action property: a loop that was left early leaves its mark on the completion for good.

The folds and recursive functions of these modules are reasoned about without the
induction theorems of the library, which take an operator: `NaturalsOf` and
`SubsetsOf` state induction for a set of numbers and a set of subsets, and
`FoldExists` that a fold over a finite set is a function on its subsets that takes
in one element at a time.

Only model-checked:

* `CommandEnds` and `SessionEnds`, which are liveness under fairness.
* `PassesBounded`: a tighter bound, of values and call depth alone, that holds of the
  instance's programs and not of every one: a loop that steps a pointer back from far
  into the buffer widens a range in as many passes. `TagPassesEnd` is proved of all.
* The properties of `FunctionViews`, and those of its composition with `Enrichment` in
  `FunctionCommand`: what the views make of an expression or a function is a recursion
  over it (`RECURSIVE` operators), which the provers do not reach. `EnrichmentAccounted`
  is proved of `EnrichSpec`, whose steps are those of the composition; that the
  request the views hand over is one of `Requests` is part of the property, which the
  run `function_views` checks on the composition.

## 5. Where the code and its documents differ

* **A complete answer need not be decided.** `directed_flow.cpp:1032` breaks on the
  token or the clock without a word to the completion. A symbolic query then
  answers infeasible with exit code 0 (`README.md:256`: "Complete result."), and a
  query about a reach target no_flow with exit code 0
  (`docs/benchmark-tool-instructions.md:82`: "Exit 0 means complete"). The checking
  loop answers infeasible too when the query budget ended it (`:1791`) and when an
  untranslatable candidate came after a refuted one, whose verdict stays (`:1398`).
  `CompleteIsDecided` fails; `NoFlowTrusted` and `InfeasibleTrusted` are what holds.
* **A statement can show a load that an operation has overtaken.** `value_text`
  (`compact_view.cpp:230`) renders an operand relative to its own definition, so
  nothing compares the load with the statement's place.
  `src/semantic/README.md:17-18`: "A load is only inlined within its block when no
  intervening operation may write memory, call, act as a barrier, or otherwise carry
  opaque effects." (`StatementTextCurrent`). For one expression it does hold
  (`TextFaithful`).
* **A complete taint answer can miss a flow.** The second loop goes once over the
  operations in the order of the list and not over block arguments
  (`enrichment.cpp:296`). The comment above it says "Propagate explicit
  dependencies", `README.md:256` calls exit code 0 a "Complete result."
  (`TaintComplete`). What one pass in that order can find is found
  (`EnrichmentAccounted`).
* **The decode cache outlives its view.** `decode_cache.hpp:20`: "The referenced
  binary view must outlive the cache." `~AnalysisSession` destroys the view in its body
  (`analysis_session.cpp:154`) and the cache, a member, after it. Its implicit
  destructor reads nothing through the pointer, so nothing comes of it.
  `DependenciesHeld` names the case, and says that the cache is then all that is left
  of the session.
* **A complete enrichment can have passed something over.** A source or a sink's input
  that the taint library refuses, and a block whose operations cannot be read, are
  skipped (`enrichment.cpp:277,355,246`) while the completion stays complete and the
  exit code is 0 (`README.md:256`). `EnrichmentAccounted` leaves out just these.
* **With native function calls the digest is not supplied.** The runner makes the
  native track's first call whatever the transport, but hands its result to
  `run_json_protocol` only (`runner.py:673`).
  `docs/benchmark-tool-instructions.md:59-60`: "The controller supplies the
  target function's bounded agent digest before the first tool-selection turn."
  A model that asks for it is told that it repeats a call. The checked-in
  configurations use the JSON protocol, where the statement holds
  (`DigestSupplied`).
* **A report can count more repetitions than it says.** Records are selected by
  configuration and case, not by repetition (`runner.py:34`), so a run with fewer
  repetitions than one before it reports all of them under a line with the
  smaller number (`runner.py:401`; `SummaryWithinPlan`). That all planned jobs
  are in the summary does hold (`CompleteCoversPlan`).

## 6. Plan

Done: all modules of section 2, the refinement of `FlowAnswer`, and the proofs of
`SessionOpen`, `DirectedFlow`, `PathSearch`, `TagPropagation`, `Enrichment`,
`ToolProtocol` and `RunnerResume`. What would come next, in this order:

1. **`CancelScope`**: tokens with an owner, requested only in their scope and at
   most in one named window; `SessionOpen` shown to implement it.
2. **`CliSearch`**, **`EmitBudget`**: the breadth-first path and slice searches of the
   commands against reachability; the shrinking of an answer to a byte budget.

### Not modelled

* The symbolic translation of a path's conditions: a recursion over the solver
  library's terms; its outcomes are choices of `DirectedFlow` and `Enrichment`.
* The decode cache and the caches of views: single-threaded maps that are not
  invalidated within a session.
* Emitters, option parsing, printing, prompts and scoring: sequential text and
  arithmetic, which tests reach.
* `path`, `slice`, `calls`, `xrefs` and `evidence`: see the plan, or pure lookups.
* The XAIR libraries and Z3, which are not in this repository, and instruction
  semantics, which are data without control.
* The analyzer evaluation tools and the version: sequential, without state.
