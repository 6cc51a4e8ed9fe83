------------------------------ MODULE GemmPlans -------------------------------
(***************************************************************************)
(* gemm/cublaslt_gemm.{hpp,cpp}: the plan cache of CublasLtGemm.  A plan   *)
(* is the descriptor set of one GEMM configuration with the answer of the  *)
(* one heuristic query made for it; it is cached also when the answer is   *)
(* "no algorithm", and not when building it throws.                        *)
(*                                                                         *)
(* A configuration is told apart by the product it is for, its row count,  *)
(* its context length and its batch of heads; the feature widths follow    *)
(* from the product.  What cuBLASLt answers is chosen at the first query;  *)
(* MaxUnsupported bounds how often the answer is "no algorithm".           *)
(***************************************************************************)
EXTENDS Integers, Sequences, FiniteSets

CONSTANTS
  HeadsPerGroup,              \* heads_per_group_: query heads per KV head
  MaxUnsupported              \* bound: configurations without an algorithm

ASSUME GemmAssumption == HeadsPerGroup \in Nat \ {0} /\ MaxUnsupported \in Nat

VARIABLES
  handle,                     \* handle_ # nullptr, which is initialized()
  plans                       \* plans_ with plan_index_: configuration -> available

gemmVars == <<handle, plans>>

-----------------------------------------------------------------------------
Config(product, rows, ctx, heads) ==
  [product |-> product, rows |-> rows, ctx |-> ctx, heads |-> heads]

Linear(product, rows) == Config(product, rows, 0, 1)

PrefillScores(rows, ctx, heads) == Config("scores", rows, ctx, heads)

PrefillPv(rows, ctx, heads) == Config("pv", rows, ctx, heads)

GemmInit == handle = FALSE /\ plans = <<>>

\* Mutant: a lookup that never matches what was stored.
NeverFound(c) == FALSE

FindPlan(c) == c \in DOMAIN plans

CachePlan(c, available) ==
  plans' = [d \in DOMAIN plans \cup {c} |-> IF d = c THEN available ELSE plans[d]]

\* What the heuristic can still answer: SUCCESS with a usable result, or
\* NOT_SUPPORTED (or only results over the workspace budget).
Answers ==
  {TRUE} \cup (IF Cardinality({c \in DOMAIN plans : ~plans[c]}) < MaxUnsupported
               THEN {FALSE} ELSE {})

\* BuildPlan when every descriptor call succeeds; a failing one caches nothing.
BuildPlan(c, available) == available \in Answers /\ CachePlan(c, available)

\* Probe on a hit or after a build: afterwards plans[c] is the availability.
Probe(c) ==
  \/ FindPlan(c) /\ UNCHANGED plans
  \/ ~FindPlan(c) /\ \E available \in BOOLEAN : BuildPlan(c, available)

\* PlanFor inside a capture region: only a hit is served.
MissesInCapture(c, capturing) == capturing /\ ~FindPlan(c)

\* RunImpl reaches cublasLtMatmul: the plan is there, or is built now, and usable.
RunImpl(c, capturing) == ~MissesInCapture(c, capturing) /\ Probe(c) /\ plans'[c]

\* RunImpl finds or learns that no algorithm exists, and throws.
RunUnavailable(c, capturing) == ~MissesInCapture(c, capturing) /\ Probe(c) /\ ~plans'[c]

\* The shapes Init probes: unavailability is recorded, not an error.
SelfCheckModelShapes ==
  <<Linear("qkv_bias", 1), Linear("qkv", 1), Linear("o", 1), Linear("gateup", 1),
    Linear("down", 1), Linear("lm_head", 1),
    PrefillScores(64, 256, HeadsPerGroup), PrefillScores(64, 256, 1),
    PrefillPv(64, 256, HeadsPerGroup), PrefillPv(64, 256, 1)>>

===============================================================================
