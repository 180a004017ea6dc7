---------------------------- MODULE MC_JvmTracer ----------------------------
(***************************************************************************)
(* Two threads; one method per role: Tomcat's, Spring's, a service that    *)
(* may call itself, a query, and a job that no request is behind, which    *)
(* calls the same query and catches what it throws.                        *)
(***************************************************************************)
EXTENDS JvmTracer, TLC

CONSTANTS t1, t2

MCThreads == {t1, t2}
MCSymmetry == Permutations(MCThreads)

invoke == [stage |-> "TOMCAT", name |-> "invoke"]
doDispatch == [stage |-> "SPRING_MVC", name |-> "doDispatch"]
service == [stage |-> "SERVICE", name |-> "service"]
query == [stage |-> "SQL_QUERY", name |-> "query"]
job == [stage |-> "APP", name |-> "job"]

MCMethods == {invoke, doDispatch, service, query, job}
MCMayCall == {<<invoke, doDispatch>>, <<doDispatch, service>>,
              <<service, service>>, <<service, query>>, <<job, query>>}
MCRoots == {invoke, job}
MCCatchingJob == {job}
MCThrowing == {doDispatch, service, query}
=============================================================================
