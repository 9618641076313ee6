--------------------------- MODULE MCLanesProgress ---------------------------
(* Progress of three lanes: the local work items, the GitHub issues until a  *)
(* worker has taken them, and the Azure packets to their pull requests.      *)
(* They share no state: the part chosen at first runs, the others rest.      *)
EXTENDS MCWorkItems, AzureWorker

\* The lanes of IssueDispatch: their labels, files and workers.
CONSTANTS Issues, Lanes, Jobs, WriteScope, BaseBranch, LockKey, Star, Schema, Linked, MaxDeaths
VARIABLES label, files, lane, job, stolen, deaths
dispatchVars == <<label, files, lane, job, stolen, deaths>>
Dispatch == INSTANCE IssueDispatch
ReadyIsTaken == Dispatch!ReadyIsTaken

VARIABLE part
allVars == <<part, item, worker, child, dispatchVars, azureVars>>

\* A part that rests has one initial state.
LanesInit == /\ part \in {"items", "issues", "azure"}
             /\ Init /\ Dispatch!Init /\ AzureInit
             /\ part # "issues" => label = [i \in Issues |-> {}]
             /\ part # "azure" => scope = CHOOSE f \in [AzurePackets -> ScopeChoices] : TRUE
ItemsPart == part = "items" /\ Next /\ UNCHANGED <<dispatchVars, azureVars>>
IssuesPart == part = "issues" /\ Dispatch!Next /\ UNCHANGED <<item, worker, child, azureVars>>
AzurePart == part = "azure" /\ AzureNext /\ UNCHANGED <<item, worker, child, dispatchVars>>
LanesNext == UNCHANGED part /\ (ItemsPart \/ IssuesPart \/ AzurePart)

\* The fairness of each part, owed while that part runs.
LanesFairness ==
  /\ \A w \in Workers : /\ WF_vars(part = "items" /\ Run(w))
                        /\ WF_vars(part = "items" /\ Restart(w))
  /\ \A n \in Invocations : WF_vars(part = "items" /\ Exit(n))
  /\ \A i \in Items : WF_vars(part = "items" /\ RequeueStale({i}))
  /\ WF_vars(part = "items" /\ \E w \in Workers, i \in Items : Claim(w, i))
  /\ \A p \in Lanes : WF_dispatchVars(part = "issues" /\ Dispatch!LaneStep(p))
  /\ \A n \in Jobs : WF_dispatchVars(part = "issues" /\ Dispatch!JobStep(n))
  /\ \A k \in Dispatch!Paths : WF_dispatchVars(part = "issues" /\ Dispatch!Age(k))
  /\ \A p \in AzurePackets : WF_azureVars(part = "azure" /\ Publish(p))
  /\ WF_azureVars(part = "azure" /\ \E r \in sent : Take(r) \/ Drop(r))

LanesSpec == LanesInit /\ [][LanesNext]_allVars /\ LanesFairness

\* Two overlapping issues, one of which declares no scope; two orchestrators.
TwoLanes == {w1, w2}
TwoJobs == 1..2
Undeclared == a :> << >> @@ b :> << <<"src">> >>
OneBranch == [i \in Issues |-> "main"]
NoIssues == {}
Schemas == {"migrations"}

\* Two packets, one of them only claimed; scopes that are directories, files
\* and globs.
OneWorked == {a}
SomeScopes == {{<<"src">>}, {<<"src", AnyName>>}, {<<AnyName, "a">>}, {<<"doc">>, <<"src", "b">>}}
SomePaths == {<<"src">>, <<"src", "a">>, <<"src", "b">>, <<"doc", "a">>, <<"src", "b", "a">>, <<"doc">>}
=============================================================================
