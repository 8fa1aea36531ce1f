---------------------------- MODULE MCLifecycle ----------------------------
(* Small instances of Lifecycle for TLC. *)
EXTENDS Lifecycle

CONSTANTS client, server, k1, k2

\* Two goroutines of one end close at once.
TwoClosers == {<<client, k1>>, <<client, k2>>}

\* One end closes; a malformed frame makes either end close as well.
OneCloser == {<<client, k1>>}
=============================================================================
