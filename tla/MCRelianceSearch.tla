--------------------------- MODULE MCRelianceSearch ---------------------------
(***************************************************************************)
(* Instances of RelianceSearch: the programs of examples/reliances with    *)
(* the graphs that tests.cpp expects of them, and some that it does not    *)
(* have. Variables are numbered by their first occurrence in the rule.     *)
(***************************************************************************)
EXTENDS RelianceSearch

At(pred, terms) == [pred |-> pred, terms |-> terms]
R(heads, body) == [heads |-> heads, body |-> body]
Test(k, expected, program) == [kind |-> k, expected |-> expected, rules |-> program]

PositiveTests == {
  \* pos_basic.dl
  Test("positive", {<<1, 2>>},
       <<R(<<At("A", <<1, 2>>)>>, <<At("B", <<1, 3>>)>>),
         R(<<At("C", <<1, 2>>)>>, <<At("A", <<1, 2>>)>>)>>),
  \* pos_basic_2.dl
  Test("positive", {<<1, 2>>},
       <<R(<<At("A", <<1, 1>>), At("C", <<1, 1>>)>>, <<At("B", <<1, 2>>)>>),
         R(<<At("D", <<1, 2>>)>>, <<At("A", <<1, 2>>), At("C", <<2, 1>>)>>)>>),
  \* pos_thesis.dl
  Test("positive", {<<1, 2>>},
       <<R(<<At("P", <<1, 2>>), At("Q", <<2, 3>>)>>, <<At("A", <<1, 3>>)>>),
         R(<<At("B", <<1, 1>>)>>, <<At("P", <<2, 2>>), At("P", <<2, 3>>), At("Q", <<3, 2>>)>>)>>),
  \* pos_null_1.dl
  Test("positive", {},
       <<R(<<At("H", <<1, 2>>)>>, <<At("B", <<1>>)>>),
         R(<<At("C", <<1>>)>>, <<At("H", <<1, 1>>)>>)>>),
  \* pos_null_2.dl
  Test("positive", {},
       <<R(<<At("H", <<1, 2>>)>>, <<At("B", <<1>>)>>),
         R(<<At("D", <<1, 2>>)>>, <<At("H", <<1, 2>>), At("C", <<2>>)>>)>>),
  \* pos_phi2Ia.dl
  Test("positive", {},
       <<R(<<At("A", <<1, 2>>), At("R", <<1>>)>>, <<At("A", <<1, 2>>)>>),
         R(<<At("B", <<1, 2>>)>>, <<At("A", <<1, 2>>)>>)>>),
  \* pos_psi1Ia_phi1.dl
  Test("positive", {},
       <<R(<<At("A", <<1, 1>>)>>, <<At("A", <<2, 2>>)>>),
         R(<<At("C", <<1>>)>>, <<At("A", <<1, 1>>)>>)>>),
  \* pos_psi1Ia_phi1phi22.dl
  Test("positive", {},
       <<R(<<At("H", <<1, 2>>), At("A", <<2, 2>>)>>, <<At("A", <<1, 1>>), At("B", <<1>>)>>),
         R(<<At("C", <<1>>)>>, <<At("H", <<1, 1>>), At("H", <<1, 2>>)>>)>>),
  \* pos_psi1Ia_phi22.dl
  Test("positive", {},
       <<R(<<At("H", <<1, 2>>)>>, <<At("B", <<1>>)>>),
         R(<<At("C", <<1>>)>>, <<At("H", <<1, 1>>), At("H", <<1, 2>>)>>)>>),
  \* pos_psi2Ib_phi1.dl
  Test("positive", {<<2, 1>>},
       <<R(<<At("B", <<1, 2>>)>>, <<At("A", <<1, 2>>)>>),
         R(<<At("A", <<1, 2>>)>>, <<At("B", <<1, 3>>)>>)>>),
  \* pos_psi2Ib_phi22.dl
  Test("positive", {},
       <<R(<<At("H", <<1, 1>>)>>, <<At("A", <<1>>)>>),
         R(<<At("B", <<1, 1>>)>>, <<At("B", <<1, 2>>), At("H", <<1, 2>>)>>)>>),
  \* pos_psi2Ib_psi1.dl
  Test("positive", {},
       <<R(<<At("H", <<1, 2>>), At("T", <<3, 2>>)>>, <<At("A", <<1, 3>>)>>),
         R(<<At("T", <<1, 2>>)>>, <<At("H", <<3, 2>>)>>)>>),
  \* pos_unif_1.dl
  Test("positive", {},
       <<R(<<At("H", <<1, 1, 100>>)>>, <<At("B", <<1>>)>>),
         R(<<At("C", <<1>>)>>, <<At("H", <<1, 101, 1>>)>>)>>),
  \* pos_unif_2.dl
  Test("positive", {},
       <<R(<<At("H", <<1, 2, 100>>)>>, <<At("B", <<1>>)>>),
         R(<<At("C", <<1, 2>>)>>, <<At("H", <<1, 2, 2>>)>>)>>),
  \* pos_psi1Ia_ext.dl
  Test("positive", {<<1, 2>>},
       <<R(<<At("H", <<1, 1>>), At("H", <<1, 2>>), At("C", <<2, 1>>)>>, <<At("C", <<1, 1>>), At("B", <<1>>)>>),
         R(<<At("D", <<1, 2>>)>>, <<At("H", <<1, 2>>), At("C", <<2, 1>>), At("H", <<1, 1>>)>>)>>),
  \* pos_phi2Ia_ext.dl
  Test("positive", {<<1, 2>>},
       <<R(<<At("A", <<1, 1>>), At("R", <<1>>)>>, <<At("B", <<1>>)>>),
         R(<<At("C", <<1, 2>>)>>, <<At("A", <<1, 2>>), At("A", <<2, 1>>)>>)>>)}
RestraintTests == {
  \* res_basic_1.dl
  Test("restraint", {<<2, 1>>},
       <<R(<<At("H", <<1, 2>>)>>, <<At("B", <<1>>)>>),
         R(<<At("H", <<1, 2>>)>>, <<At("A", <<1, 2>>)>>)>>),
  \* res_basic_2.dl
  Test("restraint", {<<2, 1>>},
       <<R(<<At("H", <<1, 2, 3>>), At("B", <<4, 3, 100>>)>>, <<At("A", <<1, 4>>)>>),
         R(<<At("H", <<1, 2, 3>>), At("B", <<1, 3, 100>>)>>, <<At("C", <<1, 2>>)>>)>>),
  \* res_null_1.dl
  Test("restraint", {},
       <<R(<<At("H", <<1, 2, 3>>)>>, <<At("B", <<1>>)>>),
         R(<<At("H", <<1, 2, 3>>)>>, <<At("A", <<2, 3>>)>>)>>),
  \* res_null_2.dl
  Test("restraint", {<<1, 2>>},
       <<R(<<At("H", <<1, 2, 3>>)>>, <<At("A", <<1, 2>>)>>),
         R(<<At("H", <<1, 2, 3>>)>>, <<At("B", <<1>>)>>)>>),
  \* res_null_3.dl
  Test("restraint", {<<1, 2>>, <<1, 1>>, <<2, 2>>},
       <<R(<<At("Q", <<1>>), At("H", <<1, 2, 2>>)>>, <<At("A", <<1, 3>>)>>),
         R(<<At("R", <<1>>), At("H", <<2, 3, 4>>)>>, <<At("B", <<1>>)>>)>>),
  \* res_null_4.dl
  Test("restraint", {},
       <<R(<<At("H", <<1, 2, 3>>), At("B", <<4, 3>>)>>, <<At("A", <<1, 4>>)>>),
         R(<<At("H", <<1, 2, 2>>)>>, <<At("C", <<1>>)>>)>>),
  \* res_psi2Iam_phi2.dl
  Test("restraint", {},
       <<R(<<At("B", <<1, 2, 3>>)>>, <<At("B", <<2, 1, 4>>)>>),
         R(<<At("B", <<1, 1, 1>>)>>, <<At("A", <<1>>)>>)>>),
  \* res_psi1Ibm_psi2.dl
  Test("restraint", {},
       <<R(<<At("A", <<1, 2, 2>>)>>, <<At("B", <<1>>)>>),
         R(<<At("A", <<1, 2, 3>>)>>, <<At("A", <<1, 3, 2>>)>>)>>),
  \* res_psi1Ibm_phi1phi2.dl
  Test("restraint", {<<2, 2>>},
       <<R(<<At("H", <<1, 2, 2, 3>>)>>, <<At("A", <<1, 2>>)>>),
         R(<<At("H", <<1, 1, 2, 3>>), At("C", <<4, 4>>), At("A", <<1, 1>>)>>, <<At("C", <<1, 2>>)>>)>>),
  \* res_psi1Ibm_phi1phi2psi22.dl
  Test("restraint", {<<2, 1>>},
       <<R(<<At("R", <<1>>), At("H", <<2, 3, 1, 1>>), At("H", <<3, 2, 1, 1>>)>>, <<At("A", <<2, 3>>)>>),
         R(<<At("R", <<1>>), At("H", <<1, 2, 1, 2>>), At("C", <<1, 1>>), At("A", <<1, 1>>)>>, <<At("C", <<1, 2>>)>>)>>),
  \* res_altPresent.dl
  Test("restraint", {<<2, 1>>},
       <<R(<<At("H", <<1, 2, 3, 3>>), At("H", <<2, 1, 3, 3>>)>>, <<At("A", <<1, 2>>)>>),
         R(<<At("H", <<1, 2, 1, 2>>), At("C", <<1, 1>>), At("A", <<1, 1>>)>>, <<At("C", <<1, 2>>)>>)>>),
  \* res_self_markus.dl
  Test("restraint", {<<1, 1>>},
       <<R(<<At("R", <<1, 1, 2>>), At("R", <<1, 3, 2>>), At("A", <<3>>)>>, <<At("B", <<1>>)>>)>>),
  \* res_self_markus+.dl
  Test("restraint", {<<1, 1>>},
       <<R(<<At("D", <<1, 2>>), At("C", <<3, 4>>), At("R", <<5, 3, 1>>), At("R", <<5, 5, 1>>), At("A", <<3>>)>>, <<At("B", <<5>>)>>)>>),
  \* res_self_trivial.dl
  Test("restraint", {<<1, 1>>},
       <<R(<<At("H", <<1, 2>>), At("R", <<1>>)>>, <<At("B", <<1>>)>>)>>),
  \* res_self_twice.dl
  Test("restraint", {<<1, 1>>},
       <<R(<<At("E", <<1, 2, 3>>), At("E", <<1, 4, 2>>)>>, <<At("D", <<1, 4>>)>>)>>),
  \* res_self_Im.dl
  Test("restraint", {<<1, 1>>},
       <<R(<<At("R", <<1, 1, 2>>), At("R", <<1, 3, 2>>), At("R", <<1, 3, 4>>)>>, <<At("B", <<1>>)>>)>>),
  \* res_larry_1.dl
  Test("restraint", {},
       <<R(<<At("q", <<1, 2>>), At("q", <<2, 1>>)>>, <<At("p", <<1, 3>>)>>)>>),
  \* res_larry_2.dl
  Test("restraint", {},
       <<R(<<At("q", <<1>>)>>, <<At("p", <<2>>)>>)>>),
  \* res_larry_3.dl
  Test("restraint", {},
       <<R(<<At("q", <<1, 2>>)>>, <<At("p", <<1>>)>>)>>),
  \* res_larry_4.dl
  Test("restraint", {},
       <<R(<<At("q", <<1, 2>>), At("r", <<2>>)>>, <<At("p", <<1>>)>>)>>),
  \* res_larry_5.dl
  Test("restraint", {<<1, 1>>},
       <<R(<<At("q", <<1, 2>>), At("q", <<2, 3>>)>>, <<At("p", <<1, 4>>)>>)>>),
  \* res_larry_6.dl
  Test("restraint", {<<1, 1>>},
       <<R(<<At("q", <<1, 2>>), At("q", <<2, 3>>)>>, <<At("p", <<2>>)>>)>>),
  \* res_larry_7.dl
  Test("restraint", {<<1, 1>>},
       <<R(<<At("q", <<1, 2>>), At("q", <<2, 3>>)>>, <<At("p", <<2, 3>>)>>)>>),
  \* res_larry_8.dl
  Test("restraint", {},
       <<R(<<At("q", <<1, 2>>), At("q", <<3, 2>>)>>, <<At("p", <<1, 3>>)>>)>>),
  \* res_larry_9.dl
  Test("restraint", {},
       <<R(<<At("q", <<1, 2, 2>>), At("r", <<2, 3>>)>>, <<At("p", <<1>>)>>)>>),
  \* res_larry_10.dl
  Test("restraint", {<<1, 1>>},
       <<R(<<At("q", <<1, 2, 3>>), At("q", <<1, 1, 3>>), At("r", <<2>>)>>, <<At("p", <<1>>)>>)>>),
  \* res_larry_11.dl
  Test("restraint", {},
       <<R(<<At("q", <<1, 2, 3>>), At("q", <<1, 4, 3>>), At("r", <<2, 3, 4>>)>>, <<At("p", <<1>>)>>)>>),
  \* res_larry_12.dl
  Test("restraint", {<<1, 1>>},
       <<R(<<At("q", <<1, 2, 3>>), At("q", <<4, 3, 2>>), At("q", <<5, 3, 6>>)>>, <<At("p", <<1, 4, 5>>)>>)>>),
  \* res_larry_13.dl
  Test("restraint", {},
       <<R(<<At("p", <<1, 2>>)>>, <<At("p", <<1, 3>>)>>)>>),
  \* res_larry_14.dl
  Test("restraint", {},
       <<R(<<At("p", <<1, 2>>)>>, <<At("p", <<3, 4>>)>>)>>),
  \* res_larry_15.dl
  Test("restraint", {},
       <<R(<<At("q", <<1, 2>>), At("q", <<3, 2>>), At("q", <<4, 2>>)>>, <<At("p", <<1, 3, 4>>)>>)>>),
  \* res_larry_16.dl
  Test("restraint", {},
       <<R(<<At("q", <<1, 2, 3>>), At("q", <<1, 3, 2>>)>>, <<At("p", <<1, 2>>)>>)>>)}

(* Rules of the same shape over different predicates: answers come from the cache. *)
ChainPrograms == {
  Test("positive", {<<1, 2>>, <<2, 3>>},
       <<R(<<At("A", <<1, 2>>)>>, <<At("B", <<1, 3>>)>>),
         R(<<At("C", <<1, 2>>)>>, <<At("A", <<1, 3>>)>>),
         R(<<At("D", <<1, 2>>)>>, <<At("C", <<1, 3>>)>>)>>),
  Test("restraint", {<<2, 1>>, <<4, 3>>},
       <<R(<<At("H", <<1, 2>>)>>, <<At("B", <<1>>)>>),
         R(<<At("H", <<1, 2>>)>>, <<At("A", <<1, 2>>)>>),
         R(<<At("K", <<1, 2>>)>>, <<At("C", <<1>>)>>),
         R(<<At("K", <<1, 2>>)>>, <<At("E", <<1, 2>>)>>)>>)}

(* A unification that is undone leaves the variables in one group. *)
UndoPrograms == {
  Test("positive", {<<1, 1>>, <<1, 2>>, <<2, 1>>},
       <<R(<<At("q", <<1, 2, 3>>), At("r", <<1, 2>>), At("s", <<3>>)>>,
           <<At("h", <<2, 1>>), At("r", <<2, 1>>)>>),
         R(<<At("h", <<1, 2>>)>>, <<At("q", <<1, 2, 3>>), At("r", <<4, 4>>), At("s", <<3>>)>>)>>)}

TestPrograms == ChainPrograms \cup PositiveTests \cup RestraintTests
DefaultStrategy == {{"EarlyTermination", "CutPairs", "PairHash", "BetterIterate"}}
AllStrategies == SUBSET {"EarlyTermination", "CutPairs", "PairHash", "BetterIterate"}
=============================================================================
