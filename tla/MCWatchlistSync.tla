--------------------------- MODULE MCWatchlistSync ---------------------------
(* Small instances of WatchlistSync for TLC. *)
EXTENDS WatchlistSync

CONSTANTS AAPL, MSFT

(* DEFAULT_SYMBOLS, cut down. *)
MCSeed == <<AAPL, MSFT>>
=============================================================================
