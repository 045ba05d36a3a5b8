----------------------------- MODULE MCMcServer -----------------------------
(* Small instances of McServer for TLC.                                    *)
EXTENDS McServer, TLC

IdSymmetry == Permutations(Ids)

\* Ids are numbers used for the first time in increasing order: the symmetry
\* of ids, in a form the liveness checker may use.
FirstUsesInOrder ==
    \A k \in Msg : ident'[k] # NoId =>
        \A i \in Ids : i < ident'[k] => \E j \in Msg : j < k /\ ident'[j] = i

\* The server after the handshake, with every message still to come: the
\* handshake's own messages are the business of the runs that start in Init.
ReadyNext     == Next /\ FirstUsesInOrder
ReadyFairSpec == IdleIn("ready") /\ [][ReadyNext]_vars /\ ControlFairness
=============================================================================
