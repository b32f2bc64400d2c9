----------------------------- MODULE RlcService -----------------------------
(***************************************************************************)
(* What an acknowledged-mode bearer promises the PDCP above it: what is    *)
(* delivered is what was written, in that order, without a gap or a        *)
(* duplicate.                                                              *)
(***************************************************************************)
EXTENDS Naturals, Sequences

VARIABLES
    written,    \* SDUs accepted by write_sdu; they are 1, 2, ...
    delivered   \* what the other side's PDCP has been given

vars == <<written, delivered>>

Init == written = 0 /\ delivered = <<>>

Write == written' = written + 1 /\ UNCHANGED delivered

(* One PDU may complete several SDUs. *)
Deliver ==
    /\ \E n \in Len(delivered) + 1..written : delivered' = [i \in 1..n |-> i]
    /\ UNCHANGED written

Spec == Init /\ [][Write \/ Deliver]_vars
=============================================================================
