-------------------------- MODULE MCBuildLifecycle --------------------------
(* Instances of BuildLifecycle for TLC. *)
EXTENDS BuildLifecycle, TLC

\* One job of every kind, with and without a CI branch.
AllJobs == {[kind |-> "allure", ci |-> b] : b \in Branches}
             \cup {[kind |-> k, ci |-> NoBranch] : k \in {"record", "playwright"}}

\* Allure jobs only, of every branch.
AllureJobs == {[kind |-> "allure", ci |-> b] : b \in Branches}

\* Allure jobs without a CI branch.
PlainJobs == {[kind |-> "allure", ci |-> NoBranch]}

Symmetry == Permutations(Gens)

=============================================================================
