----------------------------- MODULE MCPipeline -----------------------------
(***************************************************************************)
(* Small instances of the components that take a company and its postings  *)
(* from signals to contacts, side by side and not multiplied: a behaviour  *)
(* is one of the component that `subject` names, while the others rest in  *)
(* an initial state.  "fetch" is a call of the client that fetches the     *)
(* pages of several of them.                                               *)
(***************************************************************************)
EXTENDS MCSignalChain, MCCompanyEnrichment, MCResearchRuns, SolutionDesign,
        MCContactRoutes, HttpFetch, TLC

CONSTANTS lA, lB, lATracked, lBlocked, lMalformed

(* A page, the same page with tracking parameters, another page, a URL     *)
(* that the policy refuses, and a Location that is no URL.                 *)
MCLocations == {lA, lATracked, lB, lBlocked, lMalformed}
MCCanonicalOf == (lA :> "A") @@ (lATracked :> "A") @@ (lB :> "B")
                   @@ (lBlocked :> "blocked") @@ (lMalformed :> "blocked")

VARIABLE subject

MCInit ==
  /\ subject \in {"signals", "company", "research", "solution", "contacts",
                 "fetch"}
  /\ ChainInit
  /\ CompanyInit
  /\ ResearchInit
  /\ SolutionInit
  /\ ContactInit
  /\ HttpInit
  /\ ambiguous => subject = "signals"

Subject(component, next, others) ==
  /\ subject = component
  /\ next
  /\ UNCHANGED <<subject, others>>

MCNext ==
  \/ Subject("signals", ChainNext,
             <<enrichmentVars, researchVars, solutionVars, contactVars,
               httpVars>>)
  \/ Subject("company", EnrichmentNext,
             <<chainVars, researchVars, solutionVars, contactVars,
               httpVars>>)
  \/ Subject("research", ResearchNext,
             <<chainVars, enrichmentVars, solutionVars, contactVars,
               httpVars>>)
  \/ Subject("solution", SolutionNext,
             <<chainVars, enrichmentVars, researchVars, contactVars,
               httpVars>>)
  \/ Subject("contacts", ContactNext,
             <<chainVars, enrichmentVars, researchVars, solutionVars,
               httpVars>>)
  \/ Subject("fetch", HttpNext,
             <<chainVars, enrichmentVars, researchVars, solutionVars,
               contactVars>>)

MCSpec == MCInit /\ [][MCNext]_<<subject, chainVars, enrichmentVars,
                                 researchVars, solutionVars, contactVars,
                                 httpVars>>
=============================================================================
