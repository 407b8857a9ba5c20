----------------------------- MODULE MCProvider -----------------------------
(* A provider with two tickers.                                            *)
EXTENDS Provider

CONSTANTS btc, eth

=============================================================================
