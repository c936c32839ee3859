---------------------------- MODULE MCQuoteCache ----------------------------
(* Small instances of QuoteCache for TLC. *)
EXTENDS QuoteCache
=============================================================================
