---------------------------- MODULE FunctionCommand ----------------------------
(***************************************************************************)
(* The commands that show a function: its views are recovered, and what is *)
(* listed of it is handed to enrich_function() with the operations of its  *)
(* blocks, whose values the loops then follow.                             *)
(***************************************************************************)
EXTENDS FunctionViews, Enrichment

commandVars == <<vars, enrichVars>>

CommandInit == Init /\ EnrichInit

\* The model of a call's import: whether it reads input or uses it, and which of
\* its arguments it writes.
NoApi == [roles |-> {}, writes |-> {}]
ApiOf(op) == IF op.code = "call" /\ op.imm \in DOMAIN m.api THEN m.api[op.imm] ELSE NoApi

\* The operations the taint loops visit: they read memory as a value and change it
\* as another; a source taints its result and the arguments it writes, never memory.
FunctionOps == OpsIn(m, m.scope)
Visited(op) ==
  [code |-> IF op.code = "call" THEN "call" ELSE "other", roles |-> ApiOf(op).roles,
   inputs |-> op.ins \o SelectSeq(<<op.memory>>, LAMBDA v : v # 0),
   outputs |-> {op.out, op.next} \ {0},
   written |-> ({op.out} \ {0}) \cup {op.ins[k] : k \in ApiOf(op).writes \cap DOMAIN op.ins}]

\* A statement is a question when it is a branch on a value.
Question(s) ==
  IF s.kind # "branch" \/ s.values = << >> THEN "other"
  ELSE IF CodeOf(m, s.values[1]) = "const" THEN "constant" ELSE "condition"

\* What the command hands on.  No branch is asked about without a lifted block, and a
\* block whose operations cannot be read is passed over.
Handed ==
  [enrich |-> o.enrich, view |-> o.view, queries |-> o.queries, states |-> o.states,
   complete |-> {part \in {"session", "listing"} :
                   m.complete /\ (part = "listing" => listing.complete)},
   statements |-> IF \E b \in ToSet(m.scope) : m.blocks[b].lifted
                  THEN [k \in DOMAIN listing.statements |-> Question(listing.statements[k])]
                  ELSE << >>,
   ops |-> [k \in DOMAIN FunctionOps |-> Visited(m.ops[FunctionOps[k]])]]

CommandNext ==
  \/ Next /\ phase = "idle" /\ UNCHANGED enrichVars
  \/ stage = "listed" /\ UNCHANGED vars /\ TakeRequest(Handed)
  \/ EnrichStep /\ UNCHANGED vars

CommandSpec == CommandInit /\ [][CommandNext]_commandVars

-----------------------------------------------------------------------------
(* Properties.                                                             *)

\* What comes of some values when every step of a relation on values is taken.
Flood(values, relation) ==
  FoldLeft(LAMBDA S, k : S \cup {e[2] : e \in {e \in relation : e[1] \in S}},
           values, [k \in 1 .. m.count |-> k])

\* All the ways a value depends on another: operations, and arguments of blocks.
Steps(op) == IF op.code = "call" THEN {} ELSE Inputs(op) \X op.outputs
Dependences ==
  (UNION {Steps(call.ops[k]) : k \in DOMAIN call.ops}) \cup ToSet(PassedIn(m, m.scope))
Depends(sink, source) ==
  Flood(call.ops[source].written, Dependences) \cap Inputs(call.ops[sink]) # {}

\* README.md:256: exit code 0 is a "Complete result", and enrichment.cpp:295: the
\* loop is to "Propagate explicit dependencies": each sink that depends on a source,
\* through operations and the arguments of blocks, is reported by an enrichment that
\* says it is complete, were it not for what the taint library refuses.
TaintComplete ==
  exit = "complete" /\ completion = "complete" /\ "taint" \in call.enrich
  /\ unmarked = {} /\ unheard = {} =>
    \A sink \in Sinks :
      (\E source \in Sources : Depends(sink, source))
      => \E source \in Sources : <<source, sink>> \in flows
=============================================================================
