------------------------------- MODULE Lessons -------------------------------
(***************************************************************************)
(* A lesson, its versions and its reviews (lesson_service.py,              *)
(* lesson_review_service.py, lesson_review_commands.py).  A review command *)
(* carries the context its user has seen and a key; the network may        *)
(* deliver it late, twice or never.  Every command locks the lesson's row, *)
(* reads, writes and commits, so it is one step.                           *)
(*                                                                         *)
(* Editing the title or the tags and deciding a suggestion are flushed by  *)
(* the service and committed by nobody: the session of the request ends    *)
(* without a commit (database/manager.py), after the answer.               *)
(***************************************************************************)
EXTENDS Naturals, Sequences, FiniteSets

CONSTANTS
    Versions,       \* bound: version numbers from 1
    Signals,        \* bound: review signals, numbers from 1
    Keys,           \* idempotency keys; a client takes a new one for a new command
    MaxTransitions, \* bound: state transitions of the lesson
    Metadata        \* of "title", "tags" and "suggestion", what is edited

LessonsAssumption == IsFiniteSet(Versions) /\ Versions = 1..Cardinality(Versions) /\ 0 \notin Signals

VARIABLES
    lesson,         \* row of the lesson: current version and state
    versions,       \* number -> what its evidence says and what its author had seen
    signals,        \* number -> status of the review signal and its version
    transitions,    \* the audit of state transitions
    sent,           \* review commands on their way
    stored,         \* title, tags, suggestion: the value in the database
    promised,       \* and the value the last answer told
    editing         \* the request that has flushed an edit

lessonVars == <<lesson, versions, signals, transitions, sent, stored, promised, editing>>

None == 0
States == {"CURRENT", "REVIEW_RECOMMENDED", "RETIRED"}
Relations == {"none", "SUPPORTS", "CONTRADICTS"}    \* CONTRADICTS: among others
Operations == {"OPEN_SOURCE_REVIEW", "OPEN_CONTRADICTION_REVIEW", "CONFIRM_UNCHANGED",
               "NEW_VERSION", "RETIRE"}
Contexts == [current : Versions \cup {None}, state : States, signal : Signals \cup {None}]

TypeOK ==
    /\ lesson \in [current : Versions \cup {None}, state : States]
    /\ versions \in [Versions -> [evidence : Relations, seen : Versions \cup {None}]]
    /\ signals \in [Signals -> [status : {"none", "OPEN", "RESOLVED"}, version : Versions \cup {None}]]
    /\ transitions \in Seq([from : States \cup {"none"}, to : States, key : Keys \cup {None}])
    /\ sent \subseteq [key : Keys, does : Operations, seen : Contexts]
    /\ stored \in [Metadata -> {"old", "new"}]
    /\ promised \in [Metadata -> {"old", "new"}]
    /\ editing \in Metadata \cup {"nothing"}

Init ==
    /\ lesson = [current |-> None, state |-> "CURRENT"]
    /\ versions = [v \in Versions |-> [evidence |-> "none", seen |-> None]]
    /\ signals = [s \in Signals |-> [status |-> "none", version |-> None]]
    /\ transitions = <<>>
    /\ sent = {}
    /\ stored = [w \in Metadata |-> "old"]
    /\ promised = [w \in Metadata |-> "old"]
    /\ editing = "nothing"

-----------------------------------------------------------------------------

Written == {v \in Versions : versions[v].evidence # "none"}
Raised == {s \in Signals : signals[s].status # "none"}
Opened == {s \in Signals : signals[s].status = "OPEN"}
First(n, S, used) == n \in S \ used /\ \A m \in S : m < n => m \in used

\* get_open_for_lesson.
OpenSignal == IF Opened = {} THEN None ELSE CHOOSE s \in Opened : TRUE
Context == [current |-> lesson.current, state |-> lesson.state, signal |-> OpenSignal]

\* SELECT ... FOR UPDATE of the lesson: it exists, and no edit of its title is flushed.
Locks == lesson.current # None /\ editing # "title"

\* "Displayed review context changed": expected version, state and signal.
SeenIsCurrent(seen) == seen = Context

\* The receipt is written with the transition, in one commit.
Receipted(key) == key # None /\ \E i \in DOMAIN transitions : transitions[i].key = key

SignalIgnored == TRUE
\* "Resolve the open review signal first."
NoOpenSignal == Opened = {}

Moves(to, key) ==
    /\ Len(transitions) < MaxTransitions
    /\ transitions' = Append(transitions, [from |-> lesson.state, to |-> to, key |-> key])

\* A new version with its evidence snapshot; it supersedes the current one.
Writes(v, evidence, seen) ==
    /\ First(v, Versions, Written)
    /\ versions' = [versions EXCEPT ![v] = [evidence |-> evidence, seen |-> seen.current]]

Resolves(s) == signals' = [signals EXCEPT ![s].status = "RESOLVED"]

-----------------------------------------------------------------------------
(* The services, called by their own endpoints or by a review command *)

\* create_with_tags.
Create(evidence) ==
    /\ lesson.current = None
    /\ \E v \in Versions : Writes(v, evidence, Context) /\ lesson' = [lesson EXCEPT !.current = v]
    /\ transitions' = <<[from |-> "none", to |-> "CURRENT", key |-> None]>>
    /\ UNCHANGED <<signals, sent, stored, promised, editing>>

\* create_new_version; the state stays.
NewVersion(evidence, seen, v) ==
    /\ seen.current = lesson.current /\ seen.state = lesson.state
    /\ NoOpenSignal
    /\ Writes(v, evidence, seen)

\* transition_state.
Allowed(from, to) ==
    <<from, to>> \in {<<"CURRENT", "REVIEW_RECOMMENDED">>, <<"REVIEW_RECOMMENDED", "CURRENT">>,
                      <<"REVIEW_RECOMMENDED", "RETIRED">>, <<"RETIRED", "CURRENT">>}
Transition(to, key) ==
    /\ Allowed(lesson.state, to)
    /\ NoOpenSignal
    /\ Moves(to, key)

\* open_signal, for a contradicting evidence of the current version.
OpenReview(key) ==
    /\ lesson.state = "CURRENT"
    /\ Opened = {}
    /\ versions[lesson.current].evidence = "CONTRADICTS"
    /\ \E s \in Signals :
        /\ First(s, Signals, Raised)
        /\ signals' = [signals EXCEPT ![s] = [status |-> "OPEN", version |-> lesson.current]]
    /\ lesson' = [lesson EXCEPT !.state = "REVIEW_RECOMMENDED"]
    /\ Moves("REVIEW_RECOMMENDED", key)
    /\ UNCHANGED versions

\* What resolve_unchanged, resolve_with_new_version and resolve_retired ask for.
Resolvable(s) ==
    /\ signals[s].status = "OPEN"
    /\ signals[s].version = lesson.current
    /\ lesson.state = "REVIEW_RECOMMENDED"
Resolved(s, to, key) ==
    /\ Resolvable(s)
    /\ Resolves(s)
    /\ Moves(to, key)
    /\ lesson' = [lesson EXCEPT !.state = to]
    /\ UNCHANGED versions
ResolveUnchanged(s, key) == Resolved(s, "CURRENT", key)
ResolveRetired(s, key) == Resolved(s, "RETIRED", key)
ResolveWithVersion(s, evidence, seen, key) ==
    /\ Resolvable(s)
    /\ Resolves(s)
    /\ Moves("CURRENT", key)
    /\ \E v \in Versions :
        /\ Writes(v, evidence, seen)
        /\ lesson' = [current |-> v, state |-> "CURRENT"]

-----------------------------------------------------------------------------
(* The endpoints without a key; the version and state they expect were seen *)

Endpoint ==
    /\ Locks
    /\ \/ \E evidence \in Relations \ {"none"}, v \in Versions :
            /\ NewVersion(evidence, Context, v)
            /\ lesson' = [lesson EXCEPT !.current = v]
            /\ UNCHANGED <<signals, transitions>>
       \/ \E to \in States :
            /\ Transition(to, None)
            /\ lesson' = [lesson EXCEPT !.state = to]
            /\ UNCHANGED <<versions, signals>>
       \/ OpenReview(None)
       \/ \E s \in Signals : ResolveUnchanged(s, None) \/ ResolveRetired(s, None)
       \/ \E s \in Signals, evidence \in Relations \ {"none"} :
            ResolveWithVersion(s, evidence, Context, None)
    /\ UNCHANGED <<sent, stored, promised, editing>>

-----------------------------------------------------------------------------
(* Review commands *)

\* A user decides on the context that is displayed.
Send(key, does) ==
    /\ lesson.current # None
    /\ \A m \in sent : m.key # key
    /\ sent' = sent \cup {[key |-> key, does |-> does, seen |-> Context]}
    /\ UNCHANGED <<lesson, versions, signals, transitions, stored, promised, editing>>

\* Without a signal a review is one of the sources.
SourceReview(m) ==
    \/ /\ m.does \in {"OPEN_SOURCE_REVIEW", "CONFIRM_UNCHANGED", "RETIRE"}
       /\ LET to == CASE m.does = "OPEN_SOURCE_REVIEW" -> "REVIEW_RECOMMENDED"
                      [] m.does = "CONFIRM_UNCHANGED" -> "CURRENT"
                      [] m.does = "RETIRE" -> "RETIRED" IN
          /\ Transition(to, m.key)
          /\ lesson' = [lesson EXCEPT !.state = to]
          /\ UNCHANGED <<versions, signals>>
    \/ /\ m.does = "NEW_VERSION"
       /\ \E evidence \in Relations \ {"none"}, v \in Versions :
            /\ NewVersion(evidence, m.seen, v)
            /\ Transition("CURRENT", m.key)
            /\ lesson' = [current |-> v, state |-> "CURRENT"]
       /\ UNCHANGED signals

SignalReview(m) ==
    \/ m.does = "OPEN_CONTRADICTION_REVIEW" /\ OpenReview(m.key)
    \/ m.does = "CONFIRM_UNCHANGED" /\ ResolveUnchanged(m.seen.signal, m.key)
    \/ m.does = "RETIRE" /\ ResolveRetired(m.seen.signal, m.key)
    \/ /\ m.does = "NEW_VERSION"
       /\ \E evidence \in Relations \ {"none"} : ResolveWithVersion(m.seen.signal, evidence, m.seen, m.key)

\* execute and _apply.
Opens(m) == m.does \in {"OPEN_SOURCE_REVIEW", "OPEN_CONTRADICTION_REVIEW"}
Execute(m) ==
    /\ Locks
    /\ ~Receipted(m.key)
    /\ SeenIsCurrent(m.seen)
    /\ m.seen.state = (IF Opens(m) THEN "CURRENT" ELSE "REVIEW_RECOMMENDED")
    /\ Opens(m) => m.seen.signal = None
    /\ IF m.seen.signal = None /\ m.does # "OPEN_CONTRADICTION_REVIEW" THEN SourceReview(m) ELSE SignalReview(m)
    /\ UNCHANGED <<sent, stored, promised, editing>>

-----------------------------------------------------------------------------
(* Title, tags and suggestions *)

\* The service has checked and flushed the change.
Flushes(what) ==
    /\ what \in Metadata
    /\ editing = "nothing"
    /\ editing' = what
    /\ UNCHANGED <<lesson, versions, signals, transitions, sent, stored, promised>>

UpdateTitle == lesson.current # None /\ Flushes("title")
ReplaceTags == lesson.current # None /\ Flushes("tags")
\* A suggestion is decided once; confirming it makes another lesson.
Undecided == stored["suggestion"] = "old"
RejectSuggestion == "suggestion" \in Metadata /\ Undecided /\ Flushes("suggestion")
ConfirmSuggestion == "suggestion" \in Metadata /\ Undecided /\ Flushes("suggestion")

\* The route answers, and the session is closed without a commit.
Answer ==
    /\ editing # "nothing"
    /\ promised' = [promised EXCEPT ![editing] = "new"]
    /\ editing' = "nothing"
    /\ UNCHANGED <<lesson, versions, signals, transitions, sent, stored>>

Next ==
    \/ \E evidence \in Relations \ {"none"} : Create(evidence)
    \/ Endpoint
    \/ \E key \in Keys, does \in Operations : Send(key, does)
    \/ \E m \in sent : Execute(m)
    \/ UpdateTitle \/ ReplaceTags \/ RejectSuggestion \/ ConfirmSuggestion
    \/ Answer

Spec == Init /\ [][Next]_lessonVars

-----------------------------------------------------------------------------
(* Properties *)

\* FT012_LESSON_REVIEW_DOR.md: "existing open contradiction signals cannot be
\* bypassed by the general version/state endpoints".  A lesson has at most one
\* open signal; as long as it is open the lesson is recommended for review and
\* keeps the version that was contradicted.
ContradictionIsNotBypassed ==
    /\ Cardinality(Opened) <= 1
    /\ \A s \in Opened :
        /\ lesson.state = "REVIEW_RECOMMENDED"
        /\ signals[s].version = lesson.current
        /\ versions[signals[s].version].evidence = "CONTRADICTS"

\* Late and repeated commands: the transitions lead without a gap to the state
\* of the lesson, no command is applied twice although a review that was
\* confirmed unchanged brings its context back, and the author of every version
\* had seen the version it supersedes.
ReviewedAsSeen ==
    /\ \A i, j \in DOMAIN transitions :
        transitions[i].key # None /\ transitions[i].key = transitions[j].key => i = j
    /\ \A i \in 1..(Len(transitions) - 1) : transitions[i].to = transitions[i + 1].from
    /\ transitions # <<>> => transitions[Len(transitions)].to = lesson.state
    /\ \A v \in Written : v <= lesson.current /\ versions[v].seen = v - 1

\* "No success before commit" (FT012_LESSON_REVIEW_DOR.md:42).
AnsweredIsStored == \A w \in Metadata : promised[w] = stored[w]
=============================================================================
