----------------------------- MODULE ActionHead -----------------------------
(***************************************************************************)
(* The policy of a StarVLA checkpoint, behind the language model: the      *)
(* diffusion heads of PI, PI_v3 and GR00T and the regression head of OFT   *)
(* (src/models/starvla/pi_policy.cpp, pi_v3_policy.cpp, groot_policy.cpp   *)
(* and oft_policy.cpp).  The graph of a head depends on how many tokens    *)
(* condition it, of PI also on whether there is a state; it is kept for    *)
(* the next call and built anew when that changes.  The inputs of a graph  *)
(* share their memory with its intermediate results: what an evaluation    *)
(* does not write is not there.  FAST has no graph.                        *)
(*                                                                         *)
(* An input is modelled by the calls its content comes from, {0} if it     *)
(* was not written since the last evaluation; a table of the checkpoint    *)
(* comes from no call.                                                     *)
(***************************************************************************)
EXTENDS Integers, Sequences, FiniteSets, StarVLAVariants

CONSTANTS
    blocks,         \* transformer blocks of a head
    future_tokens,  \* learned rows before those of the actions
    horizon         \* rows of the actions: those of one prediction

ASSUME HeadAssumption ==
    /\ blocks \in Nat \ {0}
    /\ future_tokens \in Nat \ {0}
    /\ horizon \in Nat \ {0}

VARIABLE head

(* A head without a graph.  OFT's is built with the checkpoint.            *)
NoGraphYet == [graph |-> FALSE, token_count |-> 0, graph_uses_state |-> FALSE,
               rows |-> <<>>, shape |-> 0, inputs |-> <<>>]

---------------------------------------------------------------------------
(* The graph                                                               *)

(* The rows a head works on: build_graph of the three diffusion heads.     *)
Rows(include_state) ==
    (IF include_state THEN <<"state">> ELSE <<>>)
        \o [i \in 1 .. future_tokens |-> "future"]
        \o [i \in 1 .. horizon |-> "action"]

VelocityOffset(include_state) ==
    (IF include_state THEN 1 ELSE 0) + future_tokens

(* The rows that the head gives out as the change of the actions.          *)
Velocity(rows, include_state) ==
    SubSeq(rows, VelocityOffset(include_state) + 1,
           VelocityOffset(include_state) + horizon)

(* expected_hidden_tuple_indices: the last layers of the language model,   *)
(* one for each block of PI.                                               *)
PITupleIndices(layers) == [b \in 1 .. blocks |-> layers - blocks + b]

(* PI_v3 takes every layer.                                                *)
PIV3TupleIndices(layers) == [b \in 1 .. layers |-> b]

(* build_oft_graph, once: its size is the horizon's.                       *)
OFTGraph == [graph |-> TRUE, token_count |-> horizon,
             graph_uses_state |-> FALSE,
             rows |-> [i \in 1 .. horizon |-> "action"],
             shape |-> horizon,
             inputs |-> [input |-> {0}]]

DiffusionInputs(include_state) ==
    {"hidden", "noise", "timestep_projection", "action_time", "scalar_one"}
        \cup (IF include_state THEN {"state"} ELSE {})

(* build_graph: the size is noted last, so that a graph that could not be  *)
(* allocated matches no call.                                              *)
Built(tokens, include_state, variant) ==
    [graph |-> TRUE,
     token_count |-> tokens,
     graph_uses_state |-> include_state,
     rows |-> Rows(include_state),
     shape |-> tokens,
     inputs |-> [i \in DiffusionInputs(include_state) \cup
                       (IF variant \in PI THEN {} ELSE {"cross_mask"})
                     |-> {0}]]

(* Mutant: the graph of another call is taken if the tokens match.         *)
FitsTokensOnly(tokens, include_state) ==
    head.graph /\ head.token_count = tokens

(* evaluate: whether the graph of the last call is taken.                  *)
Fits(tokens, include_state) ==
    /\ head.graph
    /\ head.token_count = tokens
    /\ head.graph_uses_state = include_state

---------------------------------------------------------------------------
(* Operations                                                              *)

(* The head of a policy that was just loaded.                              *)
FirstHead(variant) == IF variant \in OFT THEN OFTGraph ELSE NoGraphYet

(* clear_graph and build_graph.                                            *)
BuildGraph(tokens, include_state, variant) ==
    head' = Built(tokens, include_state, variant)

(* The context, its tensors or their memory could not be had.              *)
FailBuild(tokens, include_state, variant) ==
    head' \in {NoGraphYet,
               [Built(tokens, include_state, variant) EXCEPT
                   !.token_count = 0,
                   !.graph_uses_state = FALSE]}

(* evaluate writes every input of the graph.                               *)
Written(conditioning, noise, state) ==
    [i \in DOMAIN head.inputs |->
        CASE i \in {"hidden", "cross_mask", "input"} -> conditioning
          [] i = "noise" -> noise
          [] i = "state" -> state
          [] OTHER -> {}]

WriteInputs(conditioning, noise, state) ==
    head' = [head EXCEPT !.inputs = Written(conditioning, noise, state)]

(* The calls that the output of the graph depends on.                      *)
OutputFrom == UNION {head.inputs[i] : i \in DOMAIN head.inputs}

Compute ==
    head' = [head EXCEPT !.inputs = [i \in DOMAIN @ |-> {0}]]
=============================================================================
