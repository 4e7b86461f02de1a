-------------------------- MODULE StarVLAVariants --------------------------
(***************************************************************************)
(* The seven policies that a StarVLA checkpoint may hold                   *)
(* (src/models/starvla/starvla_engine.cpp): a framework on top of one of two*)
(* language models.                                                        *)
(***************************************************************************)

OFT == {"qwen3_oft", "qwen25_oft"}
GR00T == {"qwen3_groot", "qwen25_groot"}
PI == {"qwen25_pi"}
PIV3 == {"qwen3_pi_v3"}
FAST == {"qwen25_fast"}

StarVLA == OFT \cup GR00T \cup PI \cup PIV3 \cup FAST

(* starvla_variant_from_metadata: the architecture of a variant's language *)
(* model.                                                                  *)
Architecture(variant) ==
    IF variant \in {"qwen3_oft", "qwen3_groot", "qwen3_pi_v3"}
    THEN "qwen3" ELSE "qwen2.5"
=============================================================================
