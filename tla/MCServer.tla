------------------------------ MODULE MCServer ------------------------------
(* Small instances of Server for TLC. *)
EXTENDS Server, TLC

\* Clients run one program and the pool's threads another.
Symmetry == Permutations(Clients) \cup Permutations(Workers)

\* stop() at any moment, or only once the server has said that it is running.
AnyTime   == MainAt \ {"destroyed"}
OnceArmed == AnyTime \ Setup
=============================================================================
