-------------------------- MODULE MCRefinementLoop --------------------------
(* An instance of RefinementLoop for TLC. *)
EXTENDS RefinementLoop

SmallCeiling == [s \in Stage |-> IF s = 1 THEN 3 ELSE 2]
SmallInitial ==
    [rank |-> [x \in Ladder |-> 0], limit |-> [soft |-> 1, hard |-> 2],
     set |-> [x \in Growing |-> {}], over |-> [x \in Overriding |-> 0]]
SmallBound == [x \in Ladder |-> 2]
TopLimit   == [soft |-> 2, hard |-> 3]

To(knob, to) == [knob |-> knob, to |-> to]
\* Proposals of one and of several changes: of one knob twice, of a knob and
\* an override, beyond a bound, backwards, locked, turned off, observed,
\* impure, and of nothing.
SmallProposals ==
    { <<To("range", 1)>>, <<To("range", 2), To("range", 1)>>, <<To("demotion", 1)>>,
      <<To("placement", 3)>>, <<To("ceiling", 2), To("placement", 1)>>,
      <<To("pressure", [soft |-> 2, hard |-> 2])>>,
      <<To("pressure", [soft |-> 1, hard |-> 1])>>,
      <<To("recompute", {"a"}), To("residency", 1)>>, <<To("recompute", {"b"})>>,
      <<To("range", 2), To("residency", WramOverlay)>>, <<To("tiles", 1)>>, <<>> }

\* Overrides that are set, moved later and moved back.
OverrideProposals ==
    { <<To(x, rank)>> : x \in {"ceiling", "residency"}, rank \in 1..2 }
=============================================================================
