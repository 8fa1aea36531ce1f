---------------------------- MODULE MCHandshake ----------------------------
(* Small instances of Handshake for TLC. *)
EXTENDS Handshake

Streams(n) == [enableStreams |-> TRUE, maxStreams |-> n, enableCompress |-> FALSE]

\* MaxStreams negative, left out, small, at the limit and beyond it, or useless;
\* compression with and without streams.
SomeConfigs ==
  {Streams(n) : n \in {-1, 0, 1, MAX_STREAMS_IN_THEORY, MAX_STREAMS_IN_THEORY + 1}}
    \cup { [enableStreams |-> FALSE, maxStreams |-> 2, enableCompress |-> FALSE],
           [enableStreams |-> FALSE, maxStreams |-> 0, enableCompress |-> TRUE],
           [enableStreams |-> TRUE,  maxStreams |-> 2, enableCompress |-> TRUE] }

\* A Webson-Max-Streams that is no number; no other value here equals it.
Garbled == -9
=============================================================================
