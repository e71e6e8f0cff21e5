----------------------------- MODULE MCPricing -----------------------------
(* Batches of up to MaxLength under every small event setting and gateway. *)
EXTENDS BatchPrice

MCSettings == [amount : 0..4, free : 0..5]
MCGateways == [fee_flat : {0, 45}, fee_percentage : {0, 1, 7, 50}]
=============================================================================
