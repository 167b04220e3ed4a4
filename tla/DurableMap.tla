----------------------------- MODULE DurableMap -----------------------------
(***************************************************************************)
(* What a block store promises (the trait BlockStore of                    *)
(* crates/storage/src/lib.rs): one map of headers and one of bodies, each  *)
(* of whose entries is put in a single step and never goes away.           *)
(***************************************************************************)
CONSTANT Key

VARIABLES kept_headers, kept_bodies

PutHeader(k) == kept_headers' = kept_headers \cup {k} /\ UNCHANGED kept_bodies

PutBody(k) == kept_bodies' = kept_bodies \cup {k} /\ UNCHANGED kept_headers

MapInit == kept_headers = {} /\ kept_bodies = {}

MapNext == \E k \in Key : PutHeader(k) \/ PutBody(k)

MapSpec == MapInit /\ [][MapNext]_<<kept_headers, kept_bodies>>
=============================================================================
