------------------------------ MODULE MCTestPlan ------------------------------
(* TestPlan on campaigns such as the configurations of the repository hold,  *)
(* with the eight colours of the zcu104: every choice of one to three guests *)
(* alone, and pairs of setups, which only the GUI writes.                    *)
EXTENDS TestPlan

MCVariants == [g \in Groups |-> IF g \in {"cache", "linux"} THEN 2 ELSE 1]

Setup(guests, profiling, colouring, listed, budgets) ==
  [guests |-> guests, profiling |-> profiling, colouring |-> colouring,
   listed |-> listed, budgets |-> budgets]

(* Three colourings, of which one is short of a guest and two have the same  *)
(* counts; budgets for two guests, of which one has a choice.                *)
Listed == << << 0..3, 4..7 >>, << 0..1 >>, << 0..5, 6..7 >>,
             << 4..7, 0..3 >> >>
Budgets(g, h) == << [guest |-> g, choices |-> << 1, 2 >>],
                    [guest |-> h, choices |-> << 3 >>],
                    [guest |-> "cci", choices |-> << >>] >>

Alone ==
  {Setup(g, "profiler" \in g, TRUE, << >>, << >>) :
     g \in {h \in SUBSET Groups : Cardinality(h) \in 1..3 /\ h # {"profiler"}}}
  \cup
  {Setup({"linux", "cache", "embench", "cci"}, FALSE, TRUE, << >>, << >>),
   Setup(Groups, TRUE, TRUE, << >>, << >>),
   Setup({"cache", "embench", "profiler"}, FALSE, TRUE, << >>, << >>),
   Setup({"linux", "cache"}, FALSE, TRUE, SubSeq(Listed, 1, 3), << >>),
   Setup({"linux", "cache"}, FALSE, TRUE, Listed, << >>),
   Setup({"linux", "embench"}, FALSE, FALSE, << >>, Budgets("linux", "embench")),
   Setup({"cache", "embench"}, FALSE, FALSE, << >>, Budgets("cache", "embench")),
   Setup({"cache", "embench"}, FALSE, FALSE, << >>, Budgets("embench", "cache")),
   Setup({"cache", "profiler"}, TRUE, FALSE, << >>, Budgets("cache", "profiler")),
   Setup({"linux", "cci"}, FALSE, TRUE, SubSeq(Listed, 1, 2),
         Budgets("linux", "cache"))}

InPairs ==
  {Setup({"cache"}, FALSE, FALSE, << >>, << >>),
   Setup({"linux", "embench"}, FALSE, TRUE, SubSeq(Listed, 1, 2), << >>),
   Setup({"embench", "profiler"}, TRUE, FALSE, << >>, Budgets("embench", "cache")),
   Setup({"cache", "embench"}, FALSE, TRUE, << >>, << >>)}

MCCampaigns == {<< s >> : s \in Alone}
               \cup {c \in InPairs \X InPairs : c[1] # c[2]}
===============================================================================
