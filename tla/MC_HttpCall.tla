---------------------------- MODULE MC_HttpCall ----------------------------
(* A server with storage and a large request limit, one with storage, a    *)
(* small request limit and no zstd support, and one with neither.          *)
EXTENDS HttpCall

MCProfiles == {[small |-> FALSE, zstd |-> TRUE, uploads |-> TRUE],
               [small |-> TRUE, zstd |-> FALSE, uploads |-> TRUE],
               [small |-> FALSE, zstd |-> TRUE, uploads |-> FALSE]}

\* The first thread makes a call that may not be repeated and has a large body;
\* the second the same, a small one that may be repeated, or a direct one.
MCCalls == [t \in Threads |->
              {[idem |-> FALSE, big |-> TRUE, sticky |-> TRUE]} \cup
              (IF t = 1 THEN {}
               ELSE {[idem |-> TRUE, big |-> FALSE, sticky |-> TRUE],
                     [idem |-> FALSE, big |-> FALSE, sticky |-> FALSE]})]
=============================================================================
