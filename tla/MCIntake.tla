------------------------------ MODULE MCIntake ------------------------------
(***************************************************************************)
(* The instance of the components a prospect passes before somebody writes *)
(* to it, and of the dashboard.  They share no variable in the code that   *)
(* is modelled here, so each behaviour runs one of them (part) and leaves  *)
(* the others in their initial states: an invariant over the variables of  *)
(* one component holds here iff it holds of the component.                 *)
(***************************************************************************)
EXTENDS Discovery, DomainThrottle, ScoreRecomputation, ApolloClient, EnrichmentCycle,
        RelevanceCache, GapAnalysis, Dashboard, TLC

CONSTANTS c1, c2, c3, e1, e2, s1, s2, s3

VARIABLE part

-----------------------------------------------------------------------------
\* Discovery: two known prospects, answers with equal domains, names, none.

MCExisting == <<[domain |-> "d1", name |-> "n1", sources |-> {"apollo", "search", "market"}],
                [domain |-> NoDomain, name |-> "n2", sources |-> {"apollo"}]>>
Raw(d, n, f) == [domain |-> d, name |-> n, source |-> "adzuna", field |-> f]
MCAnswers == {
    <<>>,
    <<Raw("d1", "n3", "v1"), Raw("d3", "n3", NoValue), Raw("d3", "n4", "v2")>>,
    <<Raw(Blank, "n2", "v1"), Raw(Blank, "n5", NoValue), Raw(Blank, "n6", "v2")>>,
    <<Raw(NoDomain, NoName, NoValue), Raw(NoDomain, "n1", NoValue), Raw("d9", "n7", "v1"), Raw("d8", "n7", "v2")>>}

-----------------------------------------------------------------------------
\* ScoreRecomputation: two jobs over all prospects, one over a terminal one.

Account(complete, employees, tech, sources) ==
    [complete |-> complete, employees |-> employees, industry |-> TRUE, revenue |-> employees > 100,
     tech |-> tech, sources |-> sources]
MCProspects == <<"p1", "p2", "p3">>
MCFacts == {Account(TRUE, 200, 3, 2), Account(TRUE, 0, 12, 5), Account(FALSE, 0, 0, 1)}
MCFirstFacts == "p1" :> Account(TRUE, 200, 3, 2) @@ "p2" :> Account(TRUE, 0, 12, 5) @@ "p3" :> Account(FALSE, 0, 0, 1)
MCSingle == "j1" :> NoProspect @@ "j2" :> NoProspect @@ "j3" :> "p3"
DefaultWeights == [firmographic |-> 30, technographic |-> 25]
MCWeights == [j1 |-> DefaultWeights, j2 |-> [firmographic |-> 20, technographic |-> 20], j3 |-> [firmographic |-> 40, technographic |-> 0]]

-----------------------------------------------------------------------------
\* ApolloClient: contacts and signals beyond the maxima, equal and unequal.

Person(n, v, r) == [priority |-> n, verified |-> v, reachable |-> r]
MCPeople == {<<>>, <<Person(1, FALSE, FALSE)>>,
             <<Person(99, TRUE, TRUE), Person(3, FALSE, FALSE), Person(3, FALSE, TRUE), Person(3, TRUE, TRUE)>>}
Signal(t, s) == [topic |-> t, strength |-> s]
MCSignals == {<<>>, <<Signal("golf", "high"), Signal("cloud", "medium"), Signal("ai", "high"), Signal("cloud", "odd")>>}
MCKind == [k1 |-> "contacts", k2 |-> "intent"]

-----------------------------------------------------------------------------
\* EnrichmentCycle: four stale records, the oldest without a domain.

MCOldest == <<"r1", "r2", "r3", "r4">>
MCFirstFound == [size |-> "small", industry |-> "tools"]
MCFound == {MCFirstFound, [size |-> "small", industry |-> "banks"]}
MCProspectOf == [r1 |-> "no_domain", r2 |-> "domain", r3 |-> "domain", r4 |-> "domain"]

\* RelevanceCache.
MCReplies == {130, Garbage}

-----------------------------------------------------------------------------
\* GapAnalysis: two skills, profiles that differ in what they lack.

Levels(x, y) == [go |-> x, sql |-> y]
MCProfiles == {[ann |-> Levels("senior", "absent"), bob |-> Levels("junior", "absent")],
               [ann |-> Levels("senior", "junior"), bob |-> Levels("absent", "absent")]}
MCFirstProfile == [ann |-> Levels("senior", "absent"), bob |-> Levels("junior", "absent")]
Standing(lost, tier) == [lost |-> lost, tier |-> tier]
MCStandings == {Standing(TRUE, "B-tier"), Standing(FALSE, "D-tier")}
MCFirstStanding == [o1 |-> Standing(FALSE, "D-tier"), o2 |-> Standing(TRUE, "B-tier")]
MCRecency == <<"o1", "o2">>

\* Dashboard: two sockets of one user and one of another.
MCUserOf == s1 :> "u1" @@ s2 :> "u1" @@ s3 :> "u2"

-----------------------------------------------------------------------------

Symmetry == Permutations({e1, e2}) \cup Permutations({s1, s2})

MCInit ==
    /\ DiscInit /\ ThrInit /\ ScoreInit /\ ApolloInit /\ CycleInit /\ CacheInit /\ GapInit /\ DashInit
    /\ part \in {"discovery", "throttle", "scoring", "lookup", "bulk", "cycle", "cache", "gaps", "dashboard"}

MCNext ==
    \/ part = "discovery" /\ DiscNext
       /\ UNCHANGED <<thrVars, scoreVars, apolloVars, cycleVars, cacheVars, gapVars, dashVars, part>>
    \/ part = "throttle" /\ ThrNext
       /\ UNCHANGED <<discVars, scoreVars, apolloVars, cycleVars, cacheVars, gapVars, dashVars, part>>
    \/ part = "scoring" /\ ScoreNext
       /\ UNCHANGED <<discVars, thrVars, apolloVars, cycleVars, cacheVars, gapVars, dashVars, part>>
    \/ part = "lookup" /\ LookupNext
       /\ UNCHANGED <<discVars, thrVars, scoreVars, cycleVars, cacheVars, gapVars, dashVars, part>>
    \/ part = "bulk" /\ BulkNext
       /\ UNCHANGED <<discVars, thrVars, scoreVars, cycleVars, cacheVars, gapVars, dashVars, part>>
    \/ part = "cycle" /\ CycleNext
       /\ UNCHANGED <<discVars, thrVars, scoreVars, apolloVars, cacheVars, gapVars, dashVars, part>>
    \/ part = "cache" /\ CacheNext
       /\ UNCHANGED <<discVars, thrVars, scoreVars, apolloVars, cycleVars, gapVars, dashVars, part>>
    \/ part = "gaps" /\ GapNext
       /\ UNCHANGED <<discVars, thrVars, scoreVars, apolloVars, cycleVars, cacheVars, dashVars, part>>
    \/ part = "dashboard" /\ DashNext
       /\ UNCHANGED <<discVars, thrVars, scoreVars, apolloVars, cycleVars, cacheVars, gapVars, part>>

MCSpec ==
    MCInit /\ [][MCNext]_<<discVars, thrVars, scoreVars, apolloVars, cycleVars, cacheVars, gapVars, dashVars, part>>
=============================================================================
