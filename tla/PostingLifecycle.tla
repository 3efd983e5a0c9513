-------------------------- MODULE PostingLifecycle --------------------------
(***************************************************************************)
(* What apps/jobs makes of the polls of one endpoint: each successful      *)
(* fetch is recorded against an immutable source snapshot and schedules a  *)
(* parse of it; the parse task persists what it read into canonical        *)
(* postings, one observation per posting and poll, and change events.      *)
(*                                                                         *)
(* The endpoint is one whose connector reads a complete collection (the    *)
(* Personio, Greenhouse, Lever and Ashby feeds), so a posting that is not  *)
(* listed counts as absent.  Parse runs are separate commands of the       *)
(* outbox: they are executed in any order, by several workers, and more    *)
(* than once.  _persist_result keeps every posting it touches locked to    *)
(* its commit and is one action.                                           *)
(***************************************************************************)
EXTENDS Naturals, Sequences, FiniteSets, FiniteSetsExt

CONSTANTS
  Postings,          \* provider identities of the endpoint's postings
  Texts,             \* what a posting says (its semantic hash)
  Forms,             \* how it says it (with the text: its full hash)
  NotListed,         \* the content of a posting that a feed does not list
  Bodies,            \* the feeds that the source can serve
  Workers,           \* Celery workers of the queue "parse"
  ClosureThreshold,  \* CLOSURE_ABSENCE_THRESHOLD
  MaxPolls,          \* bound of the model: polls of the endpoint
  MaxReparses        \* bound of the model: reparse commands

Listing == [open : BOOLEAN, text : Texts, form : Forms]
Content == Listing \cup {NotListed}

ASSUME PostingLifecycleAssumption ==
  /\ NotListed \notin Listing
  /\ Bodies \subseteq [Postings -> Content]
  /\ ClosureThreshold \in Nat \ {0}
  /\ MaxPolls \in Nat
  /\ MaxReparses \in Nat

VARIABLES
  served,        \* what the source served at each successful poll
  recorded,      \* the snapshot each poll's FetchAttempt is parsed from
  jobs,          \* the parse runs, with their ConnectorParseAttempt.status
  holding,       \* the parse run a worker executes, or 0
  applied,       \* the parse runs that succeeded, by completed_at
  posting,       \* the JobPosting rows
  observations,  \* PostingObservation.state by posting and poll
  events         \* the PostingChangeEvent rows of each posting

pollVars == <<served, recorded>>
postingVars == <<posting, observations, events>>
vars == <<pollVars, jobs, holding, applied, postingVars>>

Lifecycle == {"unseen", "open", "closed"}
Reason == {"none", "explicit", "absence"}
Observed == {"found", "explicit_closed", "missing"}
ChangeType ==
  {"created", "unchanged", "cosmetic", "material", "closed", "reopened"}
Polls == 1..MaxPolls

Unseen ==
  [lifecycle |-> "unseen", absences |-> 0, reason |-> "none",
   current |-> NotListed]

TypeOK ==
  /\ served \in Seq(Bodies)
  /\ recorded \in Seq(Bodies)
  /\ jobs \in Seq([snapshot : Bodies, poll : Polls, reprocess : BOOLEAN,
                   status : {"queued", "started", "succeeded", "failed"}])
  /\ holding \in [Workers -> 0..Len(jobs)]
  /\ applied \in Seq(DOMAIN jobs)
  /\ posting \in [Postings -> [lifecycle : Lifecycle,
                               absences : 0..ClosureThreshold,
                               reason : Reason, current : Content]]
  /\ observations \in [Postings -> [Polls -> Observed \cup {"none"}]]
  /\ events \in [Postings -> Seq([type : ChangeType, poll : Polls])]

Init ==
  /\ served = << >>
  /\ recorded = << >>
  /\ jobs = << >>
  /\ holding = [w \in Workers |-> 0]
  /\ applied = << >>
  /\ posting = [p \in Postings |-> Unseen]
  /\ observations = [p \in Postings |-> [i \in Polls |-> "none"]]
  /\ events = [p \in Postings |-> << >>]

-----------------------------------------------------------------------------
(* Polls and the parse runs they schedule.                                 *)

(* The poll that created the snapshot that poll i was recorded against.    *)
FirstPoll(i) == Min({k \in 1..i : recorded[k] = recorded[i]})

(* The endpoint's snapshot with the latest retrieved_at.  A body that is   *)
(* served again keeps the snapshot, and the time, of its first retrieval.  *)
NewestSnapshot ==
  recorded[Max({i \in DOMAIN recorded : FirstPoll(i) = i})]

(* A parse run parses a snapshot and observes on behalf of a poll.         *)
ScheduleParse(snapshot, i, reprocess) ==
  jobs' = Append(jobs, [snapshot |-> snapshot, poll |-> i,
                        reprocess |-> reprocess, status |-> "queued"])

Record(body, snapshot) ==
  /\ Len(served) < MaxPolls
  /\ served' = Append(served, body)
  /\ recorded' = Append(recorded, snapshot)
  /\ ScheduleParse(snapshot, Len(served) + 1, FALSE)
  /\ UNCHANGED <<holding, applied, postingVars>>

PollFetches(body) == Record(body, body)

(* HTTP 304: the source still serves what its last response served.        *)
PollNotModified ==
  /\ served # << >>
  /\ Record(served[Len(served)], NewestSnapshot)

(* Mutant of Reparse: it is attributed to the latest poll.                 *)
ReparseAsLatest(i) ==
  /\ Cardinality({j \in DOMAIN jobs : jobs[j].reprocess}) < MaxReparses
  /\ i \in DOMAIN recorded
  /\ FirstPoll(i) = i
  /\ ScheduleParse(recorded[i], Len(recorded), TRUE)
  /\ UNCHANGED <<pollVars, holding, applied, postingVars>>

(* create_reparse_command of a snapshot: the new run works for the poll    *)
(* that created the snapshot.                                              *)
Reparse(i) ==
  /\ Cardinality({j \in DOMAIN jobs : jobs[j].reprocess}) < MaxReparses
  /\ i \in DOMAIN recorded
  /\ FirstPoll(i) = i
  /\ ScheduleParse(recorded[i], i, TRUE)
  /\ UNCHANGED <<pollVars, holding, applied, postingVars>>

-----------------------------------------------------------------------------
(* The parse task.                                                         *)

(* _begin_parse.  A delivery that the broker redelivers or that is a retry *)
(* takes over a run that is STARTED; any other delivery of it, and every   *)
(* delivery of a run that has its result, ends here without an effect.     *)
BeginParse(w, j, recoverStarted) ==
  /\ holding[w] = 0
  /\ \/ jobs[j].status = "queued"
     \/ jobs[j].status = "started" /\ recoverStarted
  /\ jobs' = [jobs EXCEPT ![j].status = "started"]
  /\ holding' = [holding EXCEPT ![w] = j]
  /\ UNCHANGED <<pollVars, applied, postingVars>>

(* The content that run j read of posting p.                               *)
Parsed(j, p) == jobs[j].snapshot[p]
Lists(j, p) == Parsed(j, p) # NotListed

Known(p) == posting[p].lifecycle # "unseen"

(* get_or_create of the observation by posting and fetch attempt.          *)
ObservationIsNew(j, p) == observations[p][jobs[j].poll] = "none"

(* Mutant of CountsAsAbsent: a reparse counts absences like a poll.        *)
CountsAsAbsentInReparse(j, p) ==
  ~Lists(j, p) /\ Known(p) /\ ObservationIsNew(j, p)

(* A posting that is not listed: it counts once for each poll, and never   *)
(* in a reparse.                                                           *)
CountsAsAbsent(j, p) ==
  /\ ~Lists(j, p)
  /\ Known(p)
  /\ ~jobs[j].reprocess
  /\ ObservationIsNew(j, p)

(* Mutant of Absences: the count goes on beyond the threshold.             *)
AbsencesUncapped(p) == posting[p].absences + 1

Absences(p) == Min({posting[p].absences + 1, ClosureThreshold})

(* Mutant of ClosesByAbsence: a closed posting is closed at each absence.  *)
ClosesAtEveryAbsence(j, p) ==
  CountsAsAbsent(j, p) /\ Absences(p) >= ClosureThreshold

ClosesByAbsence(j, p) ==
  /\ CountsAsAbsent(j, p)
  /\ Absences(p) >= ClosureThreshold
  /\ posting[p].lifecycle # "closed"

(* The row of a listed posting takes over everything the listing says,     *)
(* whether or not this poll was observed before.                           *)
FoundPosting(j, p) ==
  LET c == Parsed(j, p) IN
  [lifecycle |-> IF c.open THEN "open" ELSE "closed",
   absences |-> 0,
   reason |-> IF c.open THEN "none" ELSE "explicit",
   current |-> c]

AbsentPosting(j, p) ==
  IF ClosesByAbsence(j, p)
  THEN [posting[p] EXCEPT !.lifecycle = "closed", !.absences = Absences(p),
                          !.reason = "absence"]
  ELSE [posting[p] EXCEPT !.absences = Absences(p)]

NewPosting(j, p) ==
  CASE Lists(j, p) -> FoundPosting(j, p)
    [] CountsAsAbsent(j, p) -> AbsentPosting(j, p)
    [] OTHER -> posting[p]

NewObservation(j, p) ==
  IF ~ObservationIsNew(j, p) THEN observations[p][jobs[j].poll]
  ELSE IF Lists(j, p) THEN IF Parsed(j, p).open THEN "found" ELSE "explicit_closed"
  ELSE IF CountsAsAbsent(j, p) THEN "missing"
  ELSE "none"

(* _change_type.                                                           *)
ChangeOf(j, p) ==
  LET new == Parsed(j, p)
      old == posting[p].current
      wasClosed == posting[p].lifecycle = "closed" IN
  CASE ~new.open -> IF wasClosed THEN "unchanged" ELSE "closed"
    [] new.open /\ wasClosed -> "reopened"
    [] new.open /\ ~Known(p) -> "created"
    [] OTHER -> IF <<old.text, old.form>> = <<new.text, new.form>>
                THEN "unchanged"
                ELSE IF old.text = new.text THEN "cosmetic" ELSE "material"

(* Mutant of ReportsListing: a reparse reports like a poll.                *)
ReportsEveryListing(j, p) == Lists(j, p)

(* A listing is reported once for each poll; a reparse reports only the    *)
(* postings it creates.                                                    *)
ReportsListing(j, p) ==
  /\ Lists(j, p)
  /\ ObservationIsNew(j, p)
  /\ jobs[j].reprocess => ~Known(p)

NewEvents(j, p) ==
  LET report(type) == <<[type |-> type, poll |-> jobs[j].poll]>> IN
  CASE ReportsListing(j, p) -> report(ChangeOf(j, p))
    [] ClosesByAbsence(j, p) -> report("closed")
    [] OTHER -> << >>

Release(w) == holding' = [holding EXCEPT ![w] = 0]

Started(w) == holding[w] # 0 /\ jobs[holding[w]].status = "started"

(* Mutant of ParseSucceeds: the attempt's status is not read again.        *)
ParseSucceedsUnguarded(w) ==
  LET j == holding[w] IN
  /\ j # 0
  /\ jobs' = [jobs EXCEPT ![j].status = "succeeded"]
  /\ applied' = Append(applied, j)
  /\ posting' = [p \in Postings |-> NewPosting(j, p)]
  /\ observations' = [p \in Postings |->
       [observations[p] EXCEPT ![jobs[j].poll] = NewObservation(j, p)]]
  /\ events' = [p \in Postings |-> events[p] \o NewEvents(j, p)]
  /\ Release(w)
  /\ UNCHANGED pollVars

(* _persist_result.                                                        *)
ParseSucceeds(w) ==
  LET j == holding[w] IN
  /\ Started(w)
  /\ jobs' = [jobs EXCEPT ![j].status = "succeeded"]
  /\ applied' = Append(applied, j)
  /\ posting' = [p \in Postings |-> NewPosting(j, p)]
  /\ observations' = [p \in Postings |->
       [observations[p] EXCEPT ![jobs[j].poll] = NewObservation(j, p)]]
  /\ events' = [p \in Postings |-> events[p] \o NewEvents(j, p)]
  /\ Release(w)
  /\ UNCHANGED pollVars

(* _fail_parse, for a parser's error and for a database constraint, and    *)
(* mark_parse_exhausted.                                                   *)
ParseFails(w) ==
  /\ Started(w)
  /\ jobs' = [jobs EXCEPT ![holding[w]].status = "failed"]
  /\ Release(w)
  /\ UNCHANGED <<pollVars, applied, postingVars>>

(* The run was settled by another delivery, the artifact cannot be read    *)
(* for now, the transaction rolls back, or the worker dies: the task ends  *)
(* and leaves the rows as they are, for a retry or a redelivery.           *)
ParseEnds(w) ==
  /\ holding[w] # 0
  /\ Release(w)
  /\ UNCHANGED <<pollVars, jobs, applied, postingVars>>

Next ==
  \/ \E b \in Bodies : PollFetches(b)
  \/ PollNotModified
  \/ \E i \in Polls : Reparse(i)
  \/ \E w \in Workers, j \in DOMAIN jobs, recoverStarted \in BOOLEAN :
       BeginParse(w, j, recoverStarted)
  \/ \E w \in Workers : ParseSucceeds(w) \/ ParseFails(w) \/ ParseEnds(w)

Spec == Init /\ [][Next]_vars

-----------------------------------------------------------------------------
(* Properties.                                                             *)

(* The parses that listed a posting, by their position in `applied'.       *)
Sightings(p) == {k \in DOMAIN applied : Lists(applied[k], p)}

(* The polls, parsed after the last sighting of a posting, that missed it. *)
MissedSince(p, k) ==
  {jobs[applied[n]].poll :
     n \in {m \in DOMAIN applied : m > k /\ ~jobs[applied[m]].reprocess}}

(* A posting's row is what the parses that succeeded say, in the order in  *)
(* which they did, whatever deliveries failed, were repeated or overtook   *)
(* one another in between: the last listing that was read decides, unless  *)
(* enough distinct polls parsed since then missed the posting.             *)
LifecycleFollowsHistory ==
  \A p \in Postings :
    IF Sightings(p) = {} THEN posting[p] = Unseen
    ELSE LET k == Max(Sightings(p))
             last == Parsed(applied[k], p)
             missed == Cardinality(MissedSince(p, k)) IN
         /\ posting[p].current = last
         /\ posting[p].absences = Min({missed, ClosureThreshold})
         /\ posting[p].reason =
              CASE ~last.open -> "explicit"
                [] last.open /\ missed >= ClosureThreshold -> "absence"
                [] OTHER -> "none"
         /\ posting[p].lifecycle = "closed" <=> posting[p].reason # "none"

(* An observation says of its poll what the poll's snapshot says, whether  *)
(* the poll's own parse or a reparse wrote it, and a posting missing from  *)
(* a poll was known when the poll was parsed.                              *)
ObservationsMatchSnapshots ==
  \A p \in Postings, i \in DOMAIN recorded :
    LET c == recorded[i][p]
        o == observations[p][i] IN
    /\ o = "missing" => c = NotListed
    /\ o = "found" => c # NotListed /\ c.open
    /\ o = "explicit_closed" => c # NotListed /\ ~c.open

(* One change event at most for each posting and poll, although a poll can *)
(* be parsed by its own run, by repeated deliveries of it and by reparses. *)
OneEventPerObservation ==
  \A p \in Postings :
    /\ \A m, n \in DOMAIN events[p] :
         events[p][m].poll = events[p][n].poll => m = n
    /\ \A m \in DOMAIN events[p] :
         observations[p][events[p][m].poll] # "none"

Reparsed(p) ==
  \E k \in DOMAIN applied : jobs[applied[k]].reprocess /\ Lists(applied[k], p)

(* The change events, by their position, that a posting's life turns on.   *)
Turns(history) ==
  {n \in DOMAIN history :
     history[n].type \in {"created", "closed", "reopened"}}

(* The change events tell a life that has come to a state: it begins once, *)
(* closings and reopenings alternate, and the last turn led to the state.  *)
Tells(history, lifecycle) ==
  LET turns == Turns(history)
      closes(n) == history[n].type = "closed" IN
  /\ \A m, n \in turns :
       m < n /\ (\A k \in turns : k <= m \/ n <= k) =>
         history[n].type = IF closes(m) THEN "reopened" ELSE "closed"
  /\ turns # {} => history[Min(turns)].type \in {"created", "closed"}
  /\ lifecycle = IF turns = {} THEN "unseen"
                 ELSE IF closes(Max(turns)) THEN "closed" ELSE "open"

(* The change events of a posting that no reparse touched tell its life:   *)
(* it is created once, closings and reopenings alternate, and the last of  *)
(* them is the state that the row is in.                                   *)
EventsTellLifecycle ==
  \A p \in Postings :
    ~Reparsed(p) => Tells(events[p], posting[p].lifecycle)

(* A parse that does not succeed has no effect on postings, a run's result *)
(* is final, and what was observed and reported stays on record.           *)
HistoryIsAppendOnly ==
  [][/\ postingVars' # postingVars => applied' # applied
     /\ \A j \in DOMAIN jobs :
          jobs[j].status \in {"succeeded", "failed"} => jobs'[j] = jobs[j]
     /\ \A p \in Postings :
          /\ \A i \in Polls : observations[p][i] # "none" =>
               observations'[p][i] = observations[p][i]
          /\ SubSeq(events'[p], 1, Len(events[p])) = events[p]]_vars

(* "One absent poll does not close by default": a posting closed for its   *)
(* absence was absent from that many feeds that the source served.         *)
ClosedAfterAbsentPolls ==
  \A p \in Postings :
    posting[p].reason = "absence" =>
      Cardinality({i \in DOMAIN served : served[i][p] = NotListed})
        >= ClosureThreshold
=============================================================================
