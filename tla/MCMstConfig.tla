----------------------------- MODULE MCMstConfig ----------------------------
(* Two VLANs, two FIDs, room for two of three MSTIs, and two ports. *)
EXTENDS MstConfig

Arg(value, ranges, star) == [value |-> value, ranges |-> ranges, star |-> star]

\* A FID or MSTID for one index, for a range given backwards, for the rest,
\* and arguments that one or both commands refuse.
MCArguments == { Arg(1, {<<1, 1>>}, FALSE), Arg(2, {<<1, 0>>}, FALSE),
                 Arg(0, {<<2, 1>>}, FALSE), Arg(1, {}, TRUE) }
=============================================================================
