------------------------------ MODULE HttpFetch ------------------------------
(***************************************************************************)
(* One call of SafeHttpFetcher.fetch (apps/sources/http.py): the loop over *)
(* redirects in which every hop is canonicalised, resolved, checked        *)
(* against the policy and pinned to the addresses it resolved to, and the  *)
(* reading of the body under a size limit and a total deadline.            *)
(*                                                                         *)
(* The fetches of SourceFetch, CompanyEnrichment and ContactRoutes are     *)
(* calls of it: "fetched" and "unchanged" are their successes, "failed" is *)
(* a SafeFetchError, which is tried again if it says so, and "escaped" is  *)
(* any other exception, which their handlers do not expect.                *)
(***************************************************************************)
EXTENDS Naturals, Sequences, FiniteSets

CONSTANTS
  Locations,    \* URLs as they are written, by a caller or by a server
  Unjoinable,   \* those in a Location header that urljoin rejects
  Forbidden,    \* stands for the canonical form of what the URL policy refuses
  CanonicalOf,  \* the canonical URL of a location, or Forbidden
  Hosts,        \* network addresses the resolver may answer
  PublicHosts,  \* those of them that the network policy permits
  MaxRedirects,
  MaxBytes,     \* max_response_bytes
  Deadline,     \* total_timeout_seconds
  MaxClock      \* bound of the model

ASSUME HttpAssumption ==
  /\ DOMAIN CanonicalOf = Locations
  /\ PublicHosts \subseteq Hosts
  /\ MaxRedirects \in 0..10
  /\ MaxBytes \in Nat \ {0}
  /\ Deadline \in Nat \ {0}
  /\ MaxClock \in Nat

VARIABLES
  stage,      \* where the call is
  location,   \* current_url, as it was written
  asked,      \* original_canonical, Forbidden until the first hop is valid
  pinned,     \* the addresses of the validated target
  visited,    \* the canonical URLs of the hops so far
  chain,      \* redirect_chain
  clock,      \* time since the call
  bytes,      \* length of the body so far
  verdict,    \* how the call ended
  contacts,   \* history: URL and address of every connection
  arrived     \* history: when the last chunk of the body came

targetVars == <<location, asked, pinned, visited>>
replyVars == <<chain, bytes, arrived>>
httpVars == <<stage, targetVars, replyVars, clock, verdict, contacts>>

Stage == {"idle", "validating", "requesting", "answering", "reading", "done"}

HttpInit ==
  /\ stage = "idle"
  /\ location = Forbidden
  /\ asked = Forbidden
  /\ pinned = {}
  /\ visited = {}
  /\ chain = << >>
  /\ clock = 0
  /\ bytes = 0
  /\ verdict = [outcome |-> "none", again |-> FALSE]
  /\ contacts = << >>
  /\ arrived = 0

CallFetch(l) ==
  /\ stage = "idle"
  /\ stage' = "validating"
  /\ location' = l
  /\ UNCHANGED <<asked, pinned, visited, replyVars, clock, verdict, contacts>>

TimePasses ==
  /\ stage \notin {"idle", "done"}
  /\ clock < MaxClock
  /\ clock' = clock + 1
  /\ UNCHANGED <<stage, targetVars, replyVars, verdict, contacts>>

EndsAs(outcome, again) ==
  /\ stage' = "done"
  /\ verdict' = [outcome |-> outcome, again |-> again]

EndsWith(outcome) == EndsAs(outcome, FALSE)

FailsFetch(again) == EndsAs("failed", again)

-----------------------------------------------------------------------------
(* The head of the loop.  The resolver is called anew at every hop; one    *)
(* that fails has no answers.                                              *)

Target == CanonicalOf[location]

(* validate_target: one address that is not permitted refuses them all.    *)
Admits(answers) ==
  /\ Target # Forbidden
  /\ answers # {}
  /\ answers \subseteq PublicHosts

Refuse(answers) ==
  /\ stage = "validating"
  /\ ~Admits(answers)
  /\ FailsFetch(FALSE)
  /\ UNCHANGED <<targetVars, replyVars, clock, contacts>>

(* Mutant of Seen: redirects are compared as they were written.            *)
SeenAsWritten == \E i \in 1..Len(chain) - 1 : chain[i].to = location

Seen == Target \in visited

(* A valid hop: a loop ends the call, then the deadline does.              *)
EnterHop(answers) ==
  /\ stage = "validating"
  /\ Admits(answers)
  /\ asked' = IF asked = Forbidden THEN Target ELSE asked
  /\ IF Seen
     THEN FailsFetch(FALSE) /\ UNCHANGED <<pinned, visited>>
     ELSE /\ visited' = visited \cup {Target}
          /\ IF clock >= Deadline
             THEN FailsFetch(TRUE) /\ UNCHANGED pinned
             ELSE /\ stage' = "requesting"
                  /\ pinned' = answers
                  /\ UNCHANGED verdict
  /\ UNCHANGED <<location, replyVars, clock, contacts>>

(* PinnedNetworkBackend: some validated address accepts the connection.    *)
Connect(h) ==
  /\ stage = "requesting"
  /\ h \in pinned
  /\ stage' = "answering"
  /\ contacts' = Append(contacts, [url |-> Target, host |-> h])
  /\ UNCHANGED <<targetVars, replyVars, clock, verdict>>

(* No address accepts, the connection breaks, or a network timeout passes. *)
NetworkFails ==
  /\ stage \in {"requesting", "answering", "reading"}
  /\ FailsFetch(TRUE)
  /\ UNCHANGED <<targetVars, replyVars, clock, contacts>>

(* A protocol error is neither a network error nor a timeout: it leaves    *)
(* fetch as it is.  A body that ends before its length is one.             *)
ProtocolBreaks ==
  /\ stage \in {"answering", "reading"}
  /\ EndsWith("escaped")
  /\ UNCHANGED <<targetVars, replyVars, clock, contacts>>

-----------------------------------------------------------------------------
(* The answer's status and headers.                                        *)

(* The code stores both ends of a hop redacted (redact_url: credentials,   *)
(* fragment, sensitive query values): `chain` is what was followed.        *)
Redirect(l) ==
  /\ stage = "answering"
  /\ Len(chain) < MaxRedirects
  /\ IF l \in Unjoinable
     THEN EndsWith("escaped") /\ UNCHANGED <<location, chain>>
     ELSE /\ stage' = "validating"
          /\ chain' = Append(chain, [from |-> Target, to |-> l])
          /\ location' = l
          /\ UNCHANGED verdict
  /\ UNCHANGED <<asked, pinned, visited, clock, bytes, contacts, arrived>>

(* No Location, or one redirect too many.                                  *)
RedirectFails ==
  /\ stage = "answering"
  /\ FailsFetch(FALSE)
  /\ UNCHANGED <<targetVars, replyVars, clock, contacts>>

NotModified ==
  /\ stage = "answering"
  /\ EndsWith("unchanged")
  /\ UNCHANGED <<targetVars, replyVars, clock, contacts>>

(* Any other status outside 2xx; 429 and 5xx are worth a retry.            *)
StatusFails(again) ==
  /\ stage = "answering"
  /\ FailsFetch(again)
  /\ UNCHANGED <<targetVars, replyVars, clock, contacts>>

(* The content type is not allowed, or the declared length is too large.   *)
HeadersFail ==
  /\ stage = "answering"
  /\ FailsFetch(FALSE)
  /\ UNCHANGED <<targetVars, replyVars, clock, contacts>>

Accept ==
  /\ stage = "answering"
  /\ stage' = "reading"
  /\ UNCHANGED <<targetVars, replyVars, clock, verdict, contacts>>

-----------------------------------------------------------------------------
(* The body.                                                               *)

(* Mutant of Overflows: the chunk at hand is not counted.                  *)
OverflowsBefore(n) == bytes > MaxBytes

Overflows(n) == bytes + n > MaxBytes

ReadChunk(n) ==
  /\ stage = "reading"
  /\ IF clock > Deadline
     THEN FailsFetch(TRUE) /\ UNCHANGED <<bytes, arrived>>
     ELSE /\ bytes' = bytes + n
          /\ arrived' = clock
          /\ IF Overflows(n) THEN FailsFetch(FALSE) ELSE UNCHANGED <<stage, verdict>>
  /\ UNCHANGED <<targetVars, chain, clock, contacts>>

(* The deadline is not looked at again.                                    *)
EndOfBody ==
  /\ stage = "reading"
  /\ IF bytes = 0 THEN FailsFetch(FALSE) ELSE EndsWith("fetched")
  /\ UNCHANGED <<targetVars, replyVars, clock, contacts>>

HttpNext ==
  \/ \E l \in Locations : (l \notin Unjoinable /\ CallFetch(l)) \/ Redirect(l)
  \/ \E answers \in SUBSET Hosts : Refuse(answers) \/ EnterHop(answers)
  \/ \E h \in Hosts : Connect(h)
  \/ \E n \in 1..MaxBytes : ReadChunk(n)
  \/ \E again \in BOOLEAN : StatusFails(again)
  \/ TimePasses \/ NetworkFails \/ ProtocolBreaks \/ RedirectFails
  \/ NotModified \/ HeadersFail \/ Accept \/ EndOfBody

HttpSpec == HttpInit /\ [][HttpNext]_httpVars

-----------------------------------------------------------------------------
(* Whatever way servers redirect and the resolver answers, a call opens at *)
(* most one connection per canonical URL and MaxRedirects + 1 in all, each *)
(* to a permitted address of a URL the policy admits: redirects are        *)
(* validated again, and their spelling does not hide a loop (http.py's     *)
(* visited, validate_target and PinnedNetworkBackend).                     *)
HopsAreDistinct ==
  /\ Len(contacts) <= MaxRedirects + 1
  /\ \A i \in DOMAIN contacts :
       /\ contacts[i].url # Forbidden
       /\ contacts[i].host \in PublicHosts
       /\ \A j \in 1..i - 1 : contacts[j].url # contacts[i].url

(* What a call that succeeds hands over is what happened: the redirect     *)
(* chain leads from the requested URL over exactly the hops contacted to   *)
(* the final one, and a body is not empty, within the limit, and came      *)
(* before the deadline, although the deadline is looked at only when a hop *)
(* begins or a chunk arrives.                                              *)
EvidenceIsTrue ==
  verdict.outcome \in {"fetched", "unchanged"} =>
    /\ Len(contacts) = Len(chain) + 1
    /\ contacts[1].url = asked
    /\ contacts[Len(contacts)].url = Target
    /\ \A i \in DOMAIN chain :
         /\ chain[i].from = contacts[i].url
         /\ CanonicalOf[chain[i].to] = contacts[i + 1].url
    /\ verdict.outcome = "fetched" => bytes \in 1..MaxBytes /\ arrived <= Deadline
=============================================================================
