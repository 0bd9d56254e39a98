------------------------------ MODULE TradePage ------------------------------
(***************************************************************************)
(* The page of a trade in the browser (frontend/src/features/trade).  Its  *)
(* forms write by requests whose answers may be lost, and read by requests *)
(* that newer ones supersede.  The page itself sells and changes the stop, *)
(* the purchase form buys, and the list of bookings corrects one: an       *)
(* outcome it does not know has to be reviewed before anything is written. *)
(* What the server and other tabs have written is one log; a read shows a  *)
(* prefix of it.  A booking that is not keyed by the page has the key 0.   *)
(***************************************************************************)
EXTENDS Naturals, Sequences, FiniteSets

CONSTANTS
    Captures,       \* forms whose requests have keys: sales and purchases
    MaxWrites,      \* bound: what the log may hold
    MaxSubmits,     \* bound: requests that the page sends
    MaxInputs,      \* bound: inputs of a form
    MaxTyped,       \* bound: stops that are typed
    OtherWrites     \* what other tabs write: bookings, corrections, stops

PageAssumption ==
    /\ Captures \subseteq {"sale", "purchase"}
    /\ MaxWrites \in Nat \ {0} /\ {MaxSubmits, MaxInputs, MaxTyped} \subseteq Nat

VARIABLES
    log,            \* what was written: bookings, corrections and stops
    lost,           \* requests that nobody waits for, and that may still arrive
    page,           \* what the page shows of the trade, and the input of its stop
    panel,          \* what the list of bookings shows, and what it has open
    tasks,          \* what each form is doing
    reads,          \* reads under way
    capture,        \* the input of each form, and the key it stored for it
    submits,
    told            \* the latest entry of the log whose writing was confirmed

pageVars == <<log, lost, page, panel, tasks, reads, capture, submits, told>>

Forms == {"page", "purchase", "bookings"}
FormOf(kind) == IF kind = "purchase" THEN "purchase" ELSE IF kind = "correct" THEN "bookings" ELSE "page"
Entry(kind, key, input, of) == [kind |-> kind, key |-> key, input |-> input, of |-> of]
NoEntry == Entry("none", 0, 0, 0)
Elsewhere == MaxTyped + 1      \* the stop that another tab chooses

Idle == [phase |-> "idle", entry |-> NoEntry, ok |-> TRUE]
Clear == [target |-> 0, confirmed |-> FALSE]
Read(of, since, who) == [of |-> of, since |-> since, awaits |-> who]

\* The bookings of a prefix that no other replaces, and the stop it ends with.
Effective(n) ==
    {i \in 1..n : log[i].kind # "stop" /\ ~\E j \in 1..n : log[j].kind = "correct" /\ log[j].of = i}
StopAt(n) ==
    LET stops == {i \in 1..n : log[i].kind = "stop"}
    IN  IF stops = {} THEN 0 ELSE log[CHOOSE i \in stops : \A j \in stops : j <= i].input

TypeOK ==
    /\ Len(log) <= MaxWrites
    /\ page \in [shown : 0..MaxWrites, ready : BOOLEAN, basis : 0..Elsewhere, draft : 0..Elsewhere,
                 typed : 0..MaxTyped, count : 0..MaxTyped]
    /\ panel \in [entries : 0..MaxWrites, failed : BOOLEAN, editor : 0..MaxWrites,
                  recovery : [target : 0..MaxWrites, confirmed : BOOLEAN]]
    /\ \A f \in Forms : tasks[f].phase \in {"idle", "sent", "booked", "refused", "reads"}
    /\ \A r \in reads : r.of \in {"page", "panel"} /\ r.since \in 1..MaxWrites
    /\ capture \in [Captures -> [input : 0..MaxInputs + 1, payload : {"p", "q"},
                                 stored : {"none", "p", "q"}, key : 0..MaxSubmits]]

\* The page as it is mounted: it reads the trade, and its list the bookings.
Blank == [shown |-> 0, ready |-> FALSE, basis |-> 0, draft |-> 0, typed |-> 0, count |-> 0]
Empty == [entries |-> 0, failed |-> FALSE, editor |-> 0, recovery |-> Clear]
FirstReads(n) == {Read("page", n, "lookup"), Read("panel", n, "nobody")}

Init ==
    /\ log = <<Entry("purchase", 0, 0, 0)>>
    /\ lost = {} /\ submits = 0 /\ told = 0
    /\ page = Blank /\ panel = Empty /\ reads = FirstReads(1)
    /\ tasks = [f \in Forms |-> Idle]
    /\ capture = [k \in Captures |-> [input |-> 0, payload |-> "p", stored |-> "none", key |-> 0]]

-----------------------------------------------------------------------------
(* Who may write.  The forms know of each other's locks (TradePendingChanges), *)
(* and the list tells the page when nothing may be booked.                     *)

Locked(f) == tasks[f].phase # "idle" /\ tasks[f].entry # NoEntry
Reviewing == tasks["bookings"].phase # "idle" /\ tasks["bookings"].entry = NoEntry
IsBusy == \E f \in Forms : Locked(f)
IsBusyExcept(g) == \E f \in Forms \ {g} : Locked(f)
Blocked == Locked("bookings") \/ Reviewing \/ panel.recovery # Clear
Loading(o) == \E r \in reads : r.of = o
PageBusy == Locked("page") \/ \E r \in reads : r.awaits = "lookup"

AllOutlast(rs, of) == rs
\* A read aborts the one of its kind that is still under way, and shows what is
\* written when the server answers it.
Outlasting(rs, of) == {r \in rs : r.of # of}
Begin(rs, of, who) == Outlasting(rs, of) \cup {Read(of, Len(log), who)}

Send(f, entry) ==
    /\ submits < MaxSubmits
    /\ submits' = submits + 1
    /\ tasks' = [tasks EXCEPT ![f] = [Idle EXCEPT !.phase = "sent", !.entry = entry]]

\* The same payload is sent again with the same key, also after a reload.
KeyOf(c) == IF c.stored = c.payload THEN c.key ELSE submits + 1

SubmitCapture(k) ==
    /\ page.shown > 0 /\ ~IsBusy /\ ~Blocked
    /\ k = "sale" => ~PageBusy
    /\ capture[k].input <= MaxInputs
    /\ capture' = [capture EXCEPT ![k].stored = capture[k].payload, ![k].key = KeyOf(capture[k])]
    /\ Send(FormOf(k), Entry(k, KeyOf(capture[k]), capture[k].input, 0))
    /\ UNCHANGED <<log, lost, page, panel, reads, told>>

SubmitStop ==
    /\ page.shown > 0 /\ page.draft # 0
    /\ ~PageBusy /\ ~IsBusy /\ ~Blocked
    /\ Send("page", Entry("stop", 0, page.draft, 0))
    /\ UNCHANGED <<log, lost, page, panel, reads, capture, told>>

OpenEditor(target) ==
    /\ ~Reviewing /\ panel.recovery = Clear /\ ~Loading("panel") /\ ~panel.failed
    /\ ~IsBusy
    /\ target \in Effective(panel.entries)
    /\ panel' = [panel EXCEPT !.editor = target]
    /\ UNCHANGED <<log, lost, page, tasks, reads, capture, submits, told>>

SubmitCorrection ==
    /\ panel.editor # 0
    /\ ~IsBusy /\ ~Reviewing /\ panel.recovery = Clear /\ ~Loading("panel") /\ ~panel.failed
    /\ panel.editor \in Effective(panel.entries)
    /\ Send("bookings", Entry("correct", 0, 0, panel.editor))
    /\ UNCHANGED <<log, lost, page, panel, reads, capture, told>>

-----------------------------------------------------------------------------
(* The server, and what is written elsewhere. *)

Known(e) == e.key # 0 /\ \E i \in 1..Len(log) : log[i].kind = e.kind /\ log[i].key = e.key
Allowed(e) == e.kind = "correct" => e.of \in Effective(Len(log))
Written(e) ==
    IF Known(e) THEN UNCHANGED log
    ELSE Allowed(e) /\ Len(log) < MaxWrites /\ log' = Append(log, e)

Serve(f) ==
    /\ tasks[f].phase = "sent"
    /\ tasks' = [tasks EXCEPT ![f].phase = "booked"]
    /\ Written(tasks[f].entry)
    /\ UNCHANGED <<lost, page, panel, reads, capture, submits, told>>

Refuse(f) ==
    /\ tasks[f].phase = "sent" /\ ~Known(tasks[f].entry)
    /\ tasks' = [tasks EXCEPT ![f].phase = "refused"]
    /\ UNCHANGED <<log, lost, page, panel, reads, capture, submits, told>>

\* A request arrives that nobody waits for any more, or never does.
ServeLost(e) ==
    /\ e \in lost
    /\ Written(e)
    /\ lost' = lost \ {e}
    /\ UNCHANGED <<page, panel, tasks, reads, capture, submits, told>>

OtherTab(e) ==
    /\ e \in {Entry("purchase", 0, 0, 0), Entry("stop", 0, Elsewhere, 0)}
              \cup {Entry("correct", 0, 0, i) : i \in Effective(Len(log))}
    /\ Written(e)
    /\ UNCHANGED <<lost, page, panel, tasks, reads, capture, submits, told>>

-----------------------------------------------------------------------------
(* Answers.  One that confirms a write invalidates what the page has read. *)

LastOf(e) == CHOOSE i \in 1..Len(log) :
    /\ log[i].kind = e.kind /\ log[i].key = e.key /\ log[i].of = e.of
    /\ \A j \in i + 1..Len(log) : log[j].kind # e.kind \/ log[j].key # e.key \/ log[j].of # e.of

Told(e) == told' = IF LastOf(e) > told THEN LastOf(e) ELSE told
Invalidated == [page EXCEPT !.ready = FALSE]
AwaitReads(f) == tasks' = [tasks EXCEPT ![f].phase = "reads"]

Booked(k) ==
    /\ tasks[FormOf(k)].phase = "booked" /\ tasks[FormOf(k)].entry.kind = k
    /\ Told(tasks[FormOf(k)].entry)
    /\ reads' = Begin(Begin(reads, "panel", "nobody"), "page", FormOf(k))
    /\ AwaitReads(FormOf(k))
    /\ panel' = [panel EXCEPT !.failed = FALSE]
    /\ UNCHANGED <<log, lost, submits>>

CaptureBooked(k) ==
    /\ Booked(k)
    /\ capture' = [capture EXCEPT ![k].stored = "none", ![k].key = 0,
                   ![k].input = @ + 1]
    /\ page' = Invalidated

\* What is typed meanwhile is a new draft.
StopBooked ==
    /\ Booked("stop")
    /\ page' = [Invalidated EXCEPT !.basis = tasks["page"].entry.input,
                !.typed = IF page.draft = tasks["page"].entry.input THEN 0 ELSE @]
    /\ UNCHANGED capture

\* The list does not read at the event of its own writing, but after it.
CorrectionBooked ==
    /\ tasks["bookings"].phase = "booked"
    /\ Told(tasks["bookings"].entry)
    /\ page' = Invalidated
    /\ panel' = [panel EXCEPT !.editor = 0, !.failed = FALSE,
                 !.recovery = [target |-> tasks["bookings"].entry.of, confirmed |-> TRUE]]
    /\ reads' = Begin(Begin(reads, "panel", "bookings"), "page", "bookings")
    /\ AwaitReads("bookings")
    /\ UNCHANGED <<log, lost, capture, submits>>

\* The form keeps its input; the list reads the bookings again.
Refused(f) ==
    /\ tasks[f].phase = "refused"
    /\ IF f = "bookings"
       THEN /\ reads' = Begin(reads, "panel", "bookings")
            /\ panel' = [panel EXCEPT !.failed = FALSE]
            /\ AwaitReads(f)
       ELSE tasks' = [tasks EXCEPT ![f] = Idle] /\ UNCHANGED <<panel, reads>>
    /\ UNCHANGED <<log, lost, page, capture, submits, told>>

Orphans(fs) == {tasks[f].entry : f \in {g \in fs : tasks[g].phase = "sent"}}

\* No answer, or one that says nothing of the outcome.
NoAnswer(f) ==
    /\ tasks[f].phase \in {"sent", "booked"}
    /\ lost' = lost \cup Orphans({f})
    /\ IF f = "bookings"
       THEN /\ reads' = Begin(Begin(reads, "panel", f), "page", f)
            /\ page' = Invalidated
            /\ panel' = [panel EXCEPT !.failed = FALSE,
                         !.recovery = [target |-> tasks[f].entry.of, confirmed |-> FALSE]]
            /\ AwaitReads(f)
       ELSE tasks' = [tasks EXCEPT ![f] = Idle] /\ UNCHANGED <<page, panel, reads>>
    /\ UNCHANGED <<log, capture, submits, told>>

-----------------------------------------------------------------------------
(* Reads. *)

Fails(f) == IF f \in Forms THEN [tasks EXCEPT ![f].ok = FALSE] ELSE tasks

\* An input that is not finished is not replaced by what was read.
Kept == page.draft # page.basis
Shown(n) == [page EXCEPT !.shown = n, !.ready = TRUE, !.basis = StopAt(n),
             !.draft = IF Kept THEN @ ELSE StopAt(n),
             !.typed = IF @ = StopAt(n) THEN 0 ELSE @]

Arrive(r, n) ==
    /\ r \in reads /\ n \in r.since..Len(log)
    /\ reads' = reads \ {r}
    /\ IF r.of = "page"
       THEN page' = Shown(n) /\ UNCHANGED panel
       ELSE panel' = [panel EXCEPT !.entries = n] /\ UNCHANGED page
    /\ UNCHANGED <<log, lost, tasks, capture, submits, told>>

ReadFails(r) ==
    /\ r \in reads
    /\ reads' = reads \ {r}
    /\ tasks' = Fails(r.awaits)
    /\ panel' = IF r.of = "panel" THEN [panel EXCEPT !.failed = TRUE] ELSE panel
    /\ UNCHANGED <<log, lost, page, capture, submits, told>>

\* The replacement that was confirmed has to be among the bookings.
Replaced == panel.recovery.confirmed =>
    \E i \in 1..panel.entries : log[i].kind = "correct" /\ log[i].of = panel.recovery.target
Reviewed == tasks["bookings"].ok /\ (Reviewing \/ panel.recovery.confirmed) /\ Replaced

Finish(f) ==
    /\ tasks[f].phase = "reads" /\ ~\E r \in reads : r.awaits = f
    /\ tasks' = [tasks EXCEPT ![f] = Idle]
    /\ panel' = IF f = "bookings" /\ Reviewed THEN [panel EXCEPT !.recovery = Clear] ELSE panel
    /\ UNCHANGED <<log, lost, page, reads, capture, submits, told>>

Review ==
    /\ ~IsBusyExcept("bookings") /\ tasks["bookings"].phase = "idle" /\ ~Loading("panel")
    /\ panel.recovery # Clear
    /\ reads' = Begin(Begin(reads, "panel", "bookings"), "page", "bookings")
    /\ page' = Invalidated
    /\ panel' = [panel EXCEPT !.failed = FALSE]
    /\ tasks' = [tasks EXCEPT !["bookings"] = [Idle EXCEPT !.phase = "reads"]]
    /\ UNCHANGED <<log, lost, capture, submits, told>>

Lookup ==
    /\ ~PageBusy /\ ~IsBusy
    /\ reads' = Begin(Begin(reads, "panel", "nobody"), "page", "lookup")
    /\ page' = Invalidated
    /\ panel' = [panel EXCEPT !.failed = FALSE]
    /\ tasks' = IF reads # Outlasting(Outlasting(reads, "page"), "panel") /\ Reviewing
                THEN Fails("bookings") ELSE tasks
    /\ UNCHANGED <<log, lost, capture, submits, told>>

-----------------------------------------------------------------------------
(* The user. *)

EditCapture(k) ==
    /\ ~Locked(FormOf(k)) /\ capture[k].input < MaxInputs
    /\ capture' = [capture EXCEPT ![k].input = @ + 1, ![k].payload = IF @ = "p" THEN "q" ELSE "p"]
    /\ UNCHANGED <<log, lost, page, panel, tasks, reads, submits, told>>

TypeStop ==
    /\ page.shown > 0 /\ page.count < MaxTyped
    /\ page' = [page EXCEPT !.count = @ + 1, !.draft = page.count + 1, !.typed = page.count + 1]
    /\ UNCHANGED <<log, lost, panel, tasks, reads, capture, submits, told>>

\* The tab is loaded anew: only the stored keys remain, and the inputs of sales
\* and purchases are typed in again.
Reload ==
    /\ lost' = lost \cup Orphans(Forms)
    /\ page' = [Blank EXCEPT !.count = page.count] /\ panel' = Empty /\ reads' = FirstReads(Len(log))
    /\ tasks' = [f \in Forms |-> Idle]
    /\ UNCHANGED <<log, capture, submits, told>>

Next ==
    \/ \E k \in Captures : SubmitCapture(k) \/ CaptureBooked(k) \/ EditCapture(k)
    \/ \E target \in 1..Len(log) : OpenEditor(target)
    \/ \E f \in Forms : Serve(f) \/ Refuse(f) \/ Refused(f) \/ NoAnswer(f) \/ Finish(f)
    \/ \E e \in lost : ServeLost(e)
    \/ \E kind \in OtherWrites, of \in 0..Len(log) :
           OtherTab(Entry(kind, 0, IF kind = "stop" THEN Elsewhere ELSE 0, of))
    \/ \E r \in reads : ReadFails(r) \/ \E n \in 1..Len(log) : Arrive(r, n)
    \/ SubmitStop \/ SubmitCorrection \/ StopBooked \/ CorrectionBooked
    \/ Review \/ Lookup \/ TypeStop \/ Reload

Spec == Init /\ [][Next]_pageVars

-----------------------------------------------------------------------------
(* What the page makes sure of. *)

\* Of an input that is submitted again after an answer was lost, also by a page
\* that was loaded anew, one booking is made (captureRequest).
InputBookedOnce ==
    \A i, j \in 1..Len(log) :
        log[i].key # 0 /\ log[i].kind = log[j].kind /\ log[i].input = log[j].input /\ log[j].key # 0 => i = j

\* What is shown as read was read after every write that the page was told of: a
\* late answer of an older read does not replace it (refresh, load).
ShownIsCurrent ==
    /\ page.ready /\ ~Loading("page") => page.shown >= told
    /\ ~panel.failed /\ ~Loading("panel") => panel.entries >= told

\* One form writes at a time, and none while the outcome of a correction is not
\* known (TradePendingChanges, onWriteBlockedChange).
Writes(f) == tasks[f].phase \in {"sent", "booked"}
DoubtBlocksWrites ==
    /\ \A f, g \in Forms : Writes(f) /\ Writes(g) => f = g
    /\ panel.recovery # Clear => \A f \in Forms : ~Writes(f)

\* No read replaces a stop that was typed and is not yet stored (refresh).
TypedIsKept == page.typed # 0 => page.draft = page.typed
=============================================================================
