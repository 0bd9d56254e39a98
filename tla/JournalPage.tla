----------------------------- MODULE JournalPage -----------------------------
(***************************************************************************)
(* The journal of a trade in the browser (useTradeJournal and its panel)   *)
(* and the service behind it (learning/application/journal_service.py).    *)
(* A page sends one command at a time, with a key: one whose outcome it    *)
(* does not know is only sent again as it was, and one that was confirmed  *)
(* is over when its result has been read.  Another tab writes as well, and *)
(* the review that the journal refers to is ready or not, as its inputs    *)
(* are, and is replaced by later ones.  The three texts of a version are   *)
(* one here.                                                               *)
(***************************************************************************)
EXTENDS Naturals, Sequences

CONSTANTS
    Begun,          \* how far the journal is: "none", "draft", "final"
    Texts,          \* what may be written; a first draft is "empty"
    OtherOps,       \* what other tabs do
    MaxVersions,    \* bound: versions of the journal
    MaxRevision,    \* bound: revisions of a version
    MaxSource,      \* bound: reviews, one after another
    MaxCommands     \* bound: commands of the page

JournalAssumption ==
    /\ Begun \subseteq {"none", "draft", "final"}
    /\ OtherOps \subseteq {"create", "save", "rebind", "finalize", "materialize"}
    /\ {MaxVersions, MaxSource} \subseteq Nat \ {0} /\ {MaxRevision, MaxCommands} \subseteq Nat
    /\ MaxRevision >= 2    \* a draft and its final state

VARIABLES
    versions,       \* the journal: drafts, and finals that are left as they are
    evidence,       \* versions that are evidence
    source,         \* the review, and whether it may be referred to
    receipts,       \* commands that were applied, and the version each found
    page,           \* what the page has read and shows
    attempt,        \* its command, until it is over
    call,           \* the request for it
    read,           \* the read that counts: starting one aborts the one before
    lost,           \* commands under way that nobody waits for
    keys,           \* keys used so far
    memory          \* what the user has typed, was told of, and which commands were outdated

journalVars == <<versions, evidence, source, receipts, page, attempt, call, read, lost, keys, memory>>

Version(text, of) == [final |-> FALSE, revision |-> 1, text |-> text, source |-> of]
NoVersion == [Version("empty", 0) EXCEPT !.revision = 0]
Command(op, id, base, text, of) ==
    [key |-> keys + 1, op |-> op, id |-> id, base |-> base, text |-> text, source |-> of]
NoCommand == [key |-> 0, op |-> "none", id |-> 0, base |-> NoVersion, text |-> "empty", source |-> 0]
NoEditor == [base |-> NoVersion, text |-> "empty"]
NoConfirmation == [command |-> NoCommand, current |-> FALSE]
NoAttempt == [outcome |-> "none", command |-> NoCommand]
NoCall == [phase |-> "none", command |-> NoCommand]
Unread == [versions |-> <<>>, evidence |-> {}, source |-> [version |-> 0, ready |-> FALSE]]
NoRead == [phase |-> "none", history |-> Unread, confirms |-> FALSE, discards |-> FALSE, behind |-> FALSE]
Untyped == [text |-> "empty", id |-> 0]

History == [versions |-> versions, evidence |-> evidence, source |-> source]
\* A page that is opened at a version, or at the latest one: 0.
Blank(at, open) ==
    [shown |-> Unread, selected |-> at, editor |-> NoEditor, confirmation |-> NoConfirmation, status |-> "loading",
     pending |-> FALSE, reconcile |-> FALSE, open |-> open]
Asked == [NoRead EXCEPT !.phase = "asked"]

TypeOK ==
    /\ Len(versions) <= MaxVersions
    /\ \A v \in 1..Len(versions) :
          /\ versions[v].revision \in 1..MaxRevision /\ versions[v].text \in Texts \cup {"empty"}
          /\ versions[v].source \in 1..MaxSource /\ versions[v].final \in BOOLEAN
    /\ evidence \subseteq 1..Len(versions)
    /\ source \in [version : 1..MaxSource, ready : BOOLEAN]
    /\ page.selected \in 0..MaxVersions /\ page.status \in {"loading", "ready", "error"}
    /\ attempt.outcome \in {"none", "running", "unknown", "confirmed"}
    /\ call.phase \in {"none", "sent", "answered", "refused", "unready"}
    /\ read.phase \in {"none", "asked", "answered"}
    /\ keys \in 0..MaxCommands

Init ==
    /\ \E b \in Begun :
          versions = CASE b = "none" -> <<>>
                       [] b = "draft" -> <<Version("empty", 1)>>
                       [] b = "final" -> <<[Version("empty", 1) EXCEPT !.final = TRUE, !.revision = 2]>>
    /\ evidence = {} /\ receipts = {} /\ lost = {} /\ keys = 0
    /\ source = [version |-> 1, ready |-> TRUE]
    /\ page = Blank(0, 0) /\ read = Asked
    /\ attempt = NoAttempt /\ call = NoCall
    /\ memory = [typed |-> Untyped, told |-> NoCommand, refused |-> {}]

-----------------------------------------------------------------------------
(* The service: one command at a time, under the lock of the trade. *)

Latest == Len(versions)
VersionOf(id) == IF id = 0 THEN NoVersion ELSE versions[id]
Refers(c) == c.op \in {"create", "rebind", "finalize"}

\* The journal or the review has gone past what the command names, and does not come back:
\* what is written must be the draft, of the revision that was seen.
Outdated(c) ==
    \/ Refers(c) /\ source.version # c.source
    \/ c.op = "create" /\ (c.id # Latest \/ (Latest > 0 /\ ~versions[Latest].final))
    \/ c.op = "materialize" /\ ~versions[c.id].final
    \/ /\ c.op \in {"save", "rebind", "finalize"}
       /\ versions[c.id].final \/ versions[c.id].revision # c.base.revision
    \/ c.op = "finalize" /\ c.source # versions[c.id].source

\* _require_source: the review must be ready as well, as it is found now.
Applicable(c) == ~Outdated(c) /\ (Refers(c) => source.ready)

\* A new draft begins with the texts of the last final version.
Apply(c) ==
    /\ versions' =
          CASE c.op = "create" -> Append(versions, Version(VersionOf(c.id).text, c.source))
            [] c.op = "materialize" -> versions
            [] c.op = "save" -> [versions EXCEPT ![c.id].text = c.text, ![c.id].revision = @ + 1]
            [] c.op = "rebind" -> [versions EXCEPT ![c.id].source = c.source, ![c.id].revision = @ + 1]
            [] c.op = "finalize" -> [versions EXCEPT ![c.id].final = TRUE, ![c.id].revision = @ + 1]
    /\ Len(versions') <= MaxVersions
    /\ \A v \in 1..Len(versions') : versions'[v].revision <= MaxRevision
    /\ evidence' = IF c.op = "materialize" THEN evidence \cup {c.id} ELSE evidence

ReceiptFor(c) == {r \in receipts : r.command.key = c.key}

Execute(c) ==
    \/ /\ ReceiptFor(c) = {} /\ Applicable(c)
       /\ Apply(c)
       /\ receipts' = receipts \cup {[command |-> c, found |-> VersionOf(c.id)]}
    \/ ReceiptFor(c) # {} /\ UNCHANGED <<versions, evidence, receipts>>

Serve ==
    /\ call.phase = "sent"
    /\ \/ Execute(call.command) /\ call' = [call EXCEPT !.phase = "answered"]
       \/ /\ ReceiptFor(call.command) = {} /\ ~Applicable(call.command)
          /\ call' = [call EXCEPT !.phase = IF Outdated(call.command) THEN "refused" ELSE "unready"]
          /\ UNCHANGED <<versions, evidence, receipts>>
    /\ UNCHANGED <<source, page, attempt, read, lost, keys, memory>>

ServeLost(c) ==
    /\ lost' = lost \ {c}
    /\ \/ Execute(c)
       \/ ReceiptFor(c) = {} /\ ~Applicable(c) /\ UNCHANGED <<versions, evidence, receipts>>
    /\ UNCHANGED <<source, page, attempt, call, read, keys, memory>>

\* Another tab, which has just read.
OtherTab ==
    /\ \E op \in OtherOps, text \in Texts \cup {"empty"} :
          LET c == Command(op, Latest, VersionOf(Latest), text, source.version)
          IN  (op # "create" => Latest > 0) /\ (op = "save" <=> text # "empty") /\ Applicable(c) /\ Apply(c)
    /\ UNCHANGED <<source, receipts, page, attempt, call, read, lost, keys, memory>>

\* The inputs of the review change, or change back: they are compared on every call, and
\* nothing is stored.  Or a later review is finalized.
SourceChanges ==
    /\ \/ source' = [source EXCEPT !.ready = ~@]
       \/ /\ ~source.ready /\ source.version < MaxSource
          /\ source' = [version |-> source.version + 1, ready |-> TRUE]
    /\ UNCHANGED <<versions, evidence, receipts, page, attempt, call, read, lost, keys, memory>>

ServeRead ==
    /\ read.phase = "asked"
    /\ read' = [read EXCEPT !.phase = "answered", !.history = History]
    /\ UNCHANGED <<versions, evidence, source, receipts, page, attempt, call, lost, keys, memory>>

-----------------------------------------------------------------------------
(* What the page shows, and when it may act. *)

Shown == page.shown.versions
Entry == IF page.selected \in DOMAIN Shown THEN Shown[page.selected] ELSE NoVersion
ShownLatest == Len(Shown)
Current(v) == page.shown.source.ready /\ v.source = page.shown.source.version

Dirty == page.editor # NoEditor /\ page.editor.text # page.editor.base.text
Conflict == page.reconcile \/ (page.editor # NoEditor /\ page.editor.base # Entry)
CanAct ==
    page.status = "ready" /\ ~page.pending /\ attempt = NoAttempt /\ ~Conflict

\* confirmationIsCurrent, of a command that was confirmed on what was shown.
Confirmable(c, current) ==
    /\ c.op = "create" => c.id = ShownLatest /\ (ShownLatest > 0 => Shown[ShownLatest] = c.base /\ c.base.final)
    /\ c.op # "create" => c.id = page.selected /\ Entry = c.base /\ current = Current(Entry)
    /\ c.op # "materialize" => page.shown.source.ready /\ page.shown.source.version = c.source
    /\ c.op = "finalize" => Current(Entry) /\ Entry.source = c.source

\* What the panel offers.
Offered(op) ==
    CASE op = "create" -> page.shown.source.ready /\ (ShownLatest > 0 => Shown[ShownLatest].final)
      [] op = "finalize" -> Entry # NoVersion /\ ~Entry.final /\ Current(Entry)
      [] op = "rebind" -> /\ Entry # NoVersion /\ ~Entry.final /\ page.shown.source.ready
                          /\ Entry.source # page.shown.source.version
      [] op = "materialize" -> /\ Entry # NoVersion /\ Entry.final /\ page.editor = NoEditor
                               /\ page.selected \notin page.shown.evidence

\* load: the read confirms the attempt if that has its receipt.
Begin(outcome, discards) ==
    read' = [Asked EXCEPT !.confirms = (outcome = "confirmed"), !.discards = discards]

Load(discards) ==
    /\ ~page.pending
    /\ Begin(attempt.outcome, discards)
    /\ page' = [page EXCEPT !.status = "loading"]
    /\ UNCHANGED <<versions, evidence, source, receipts, attempt, call, lost, keys, memory>>

\* Another part of the page has written and asks for a read.  While a command is under
\* way that waits until its result has been read; else it is a Load.
Bump ==
    /\ page.pending /\ read.phase # "none"
    /\ read' = [read EXCEPT !.behind = TRUE]
    /\ UNCHANGED <<versions, evidence, source, receipts, page, attempt, call, lost, keys, memory>>

Edit ==
    /\ CanAct /\ page.confirmation = NoConfirmation
    /\ page.editor = NoEditor /\ Entry # NoVersion /\ ~Entry.final
    /\ page' = [page EXCEPT !.editor = [base |-> Entry, text |-> Entry.text]]
    /\ UNCHANGED <<versions, evidence, source, receipts, attempt, call, read, lost, keys, memory>>

\* Also while the outcome of a command is unknown.
Type(text) ==
    /\ page.editor # NoEditor /\ ~page.pending /\ page.status # "loading"
    /\ page.confirmation = NoConfirmation
    /\ page' = [page EXCEPT !.editor.text = text]
    /\ memory' = [memory EXCEPT !.typed = IF text = page.editor.base.text THEN Untyped
                                          ELSE [text |-> text, id |-> page.selected]]
    /\ UNCHANGED <<versions, evidence, source, receipts, attempt, call, read, lost, keys>>

CancelEdit ==
    /\ page.editor # NoEditor /\ ~page.pending /\ page.confirmation = NoConfirmation
    /\ page' = [page EXCEPT !.editor = NoEditor, !.reconcile = FALSE]
    /\ memory' = [memory EXCEPT !.typed = Untyped]
    /\ UNCHANGED <<versions, evidence, source, receipts, attempt, call, read, lost, keys>>

OpenConfirmation(op) ==
    /\ CanAct /\ ~Dirty /\ Offered(op) /\ page.confirmation = NoConfirmation
    /\ keys < MaxCommands
    /\ LET id == IF op = "create" THEN ShownLatest ELSE page.selected
           base == IF id = 0 THEN NoVersion ELSE Shown[id]
       IN page' = [page EXCEPT !.confirmation =
                      [command |-> Command(op, id, base, base.text, page.shown.source.version),
                       current |-> Current(base)]]
    /\ UNCHANGED <<versions, evidence, source, receipts, attempt, call, read, lost, keys, memory>>

CancelConfirmation ==
    /\ page.confirmation # NoConfirmation /\ ~page.pending
    /\ page' = [page EXCEPT !.confirmation = NoConfirmation]
    /\ UNCHANGED <<versions, evidence, source, receipts, attempt, call, read, lost, keys, memory>>

\* perform
Perform(command) ==
    /\ page' = [page EXCEPT !.pending = TRUE, !.confirmation = NoConfirmation]
    /\ attempt' = [outcome |-> "running", command |-> command]
    /\ call' = [phase |-> "sent", command |-> command]
    /\ UNCHANGED <<versions, evidence, source, receipts, read, lost, memory>>

Save ==
    /\ CanAct /\ Dirty /\ page.confirmation = NoConfirmation
    /\ keys < MaxCommands
    /\ Perform(Command("save", page.selected, page.editor.base, page.editor.text, 0))
    /\ keys' = keys + 1

Confirm ==
    /\ CanAct /\ page.confirmation # NoConfirmation
    /\ Confirmable(page.confirmation.command, page.confirmation.current)
    /\ Perform(page.confirmation.command)
    /\ keys' = keys + 1

Retry ==
    /\ attempt.outcome = "unknown" /\ ~page.pending
    /\ Perform(attempt.command)
    /\ UNCHANGED keys

-----------------------------------------------------------------------------
(* Answers. *)

Receipt ==
    /\ call.phase = "answered"
    /\ call' = NoCall
    /\ attempt' = [outcome |-> "confirmed", command |-> call.command]
    /\ memory' = [memory EXCEPT !.told = call.command]
    /\ Begin("confirmed", FALSE)
    /\ page' = [page EXCEPT !.status = "loading"]
    /\ UNCHANGED <<versions, evidence, source, receipts, lost, keys>>

Refused ==
    /\ call.phase \in {"refused", "unready"}
    /\ call' = NoCall /\ attempt' = NoAttempt
    /\ memory' = IF call.phase = "refused" THEN [memory EXCEPT !.refused = @ \cup {call.command.key}] ELSE memory
    /\ page' = [page EXCEPT !.pending = FALSE, !.status = "error"]
    /\ UNCHANGED <<versions, evidence, source, receipts, read, lost, keys>>

Orphan == lost' = IF call.phase = "sent" THEN lost \cup {call.command} ELSE lost

NoAnswer ==
    /\ call # NoCall
    /\ call' = NoCall /\ attempt' = [outcome |-> "unknown", command |-> call.command]
    /\ page' = [page EXCEPT !.pending = FALSE, !.status = "error"]
    /\ Orphan
    /\ UNCHANGED <<versions, evidence, source, receipts, read, keys, memory>>

\* The version that a receipt names, as it was read.
Result(c) ==
    IF c.op = "create" THEN read.history.versions[c.id + 1] ELSE read.history.versions[c.id]

\* A save or a rebinding is over if the draft is what it left, and nobody has typed on.
Settled(c) ==
    /\ ~Result(c).final /\ Result(c).revision = c.base.revision + 1
    /\ Result(c).source = IF c.op = "rebind" THEN c.source ELSE c.base.source
    /\ Result(c).text = c.text
    /\ page.editor # NoEditor => page.editor.text = c.text

\* What else must have been read for the attempt to be over.
Verified(c) ==
    /\ c.op = "materialize" => c.id \in read.history.evidence /\ Result(c) = c.base
    /\ c.op = "finalize" =>
          /\ Result(c).final /\ Result(c).revision = c.base.revision + 1
          /\ Result(c).source = c.source /\ Result(c).text = c.text

Saves(c) == read.confirms /\ c.op \in {"save", "rebind"}

EditorAfter ==
    IF \/ read.discards
       \/ /\ read.confirms
          /\ \/ attempt.command.op = "finalize"
             \/ Saves(attempt.command) /\ Settled(attempt.command)
    THEN NoEditor ELSE page.editor

\* The draft that was created is opened for editing, once.
OpensDraft(id) == id = page.open /\ ~read.history.versions[id].final

\* The selection is kept; a page that has none shows the latest version.
SelectedAfter ==
    IF page.selected # 0 THEN page.selected ELSE Len(read.history.versions)

\* What was typed has been saved, or was given up with a draft that is final.
Disposes(c, typed) ==
    c.op = "finalize" \/ (c.op = "save" /\ c.id = typed.id /\ c.text = typed.text)

\* A read that was aborted or is not the last one is not heard of any more.
Arrive ==
    /\ read.phase = "answered"
    /\ read.confirms => Verified(attempt.command)
    /\ attempt' = IF read.confirms \/ (read.discards /\ attempt.outcome # "unknown")
                  THEN NoAttempt ELSE attempt
    /\ memory' = IF read.discards \/ (read.confirms /\ Disposes(attempt.command, memory.typed))
                  THEN [memory EXCEPT !.typed = Untyped] ELSE memory
    /\ IF read.confirms /\ attempt.command.op = "create"
       THEN \* selection.current(created): another address, another state
            /\ page' = Blank(attempt.command.id + 1, attempt.command.id + 1)
            /\ read' = Asked
       ELSE LET opens == SelectedAfter # 0 /\ OpensDraft(SelectedAfter)
                base == IF SelectedAfter = 0 THEN NoVersion ELSE read.history.versions[SelectedAfter]
                again == page.pending /\ read.behind /\ call = NoCall
            IN /\ page' = [page EXCEPT
                     !.shown = read.history, !.selected = SelectedAfter,
                     !.editor = IF opens THEN [base |-> base, text |-> base.text] ELSE EditorAfter,
                     !.open = IF opens THEN 0 ELSE @,
                     !.reconcile = IF read.discards THEN FALSE
                                   ELSE IF Saves(attempt.command) THEN ~Settled(attempt.command) ELSE @,
                     !.confirmation = IF read.discards THEN NoConfirmation ELSE @,
                     !.pending = @ /\ call # NoCall,
                     !.status = IF again THEN "loading" ELSE "ready"]
               /\ read' = IF again THEN Asked ELSE NoRead
    /\ UNCHANGED <<versions, evidence, source, receipts, call, lost, keys>>

\* No answer, or one that does not show what was confirmed.
ReadFails ==
    /\ read.phase # "none"
    /\ read' = NoRead
    /\ page' = [page EXCEPT !.status = "error", !.pending = @ /\ call # NoCall]
    /\ UNCHANGED <<versions, evidence, source, receipts, attempt, call, lost, keys, memory>>

\* Another version, a reload, or leaving and coming back: the guard has asked.
Leave(at) ==
    /\ at = 0 \/ at <= ShownLatest
    /\ \E open \in IF at = 0 THEN {0} ELSE {0, page.open} : page' = Blank(at, open)
    /\ read' = Asked
    /\ attempt' = NoAttempt /\ call' = NoCall
    /\ Orphan
    /\ memory' = [memory EXCEPT !.typed = Untyped, !.told = NoCommand]
    /\ UNCHANGED <<versions, evidence, source, receipts, keys>>

Next ==
    \/ Serve \/ OtherTab \/ SourceChanges \/ ServeRead
    \/ \E c \in lost : ServeLost(c)
    \/ \E discards \in BOOLEAN : Load(discards)
    \/ Bump \/ Edit \/ CancelEdit
    \/ \E text \in Texts : Type(text)
    \/ \E op \in {"create", "rebind", "finalize", "materialize"} : OpenConfirmation(op)
    \/ CancelConfirmation \/ Save \/ Confirm \/ Retry
    \/ Receipt \/ Refused \/ NoAnswer \/ Arrive \/ ReadFails
    \/ \E at \in 0..MaxVersions : Leave(at)

Spec == Init /\ [][Next]_journalVars

-----------------------------------------------------------------------------

\* A command that was refused because the journal or the review has gone on has not been
\* applied, and is not applied by a copy of the request that arrives late; and each is
\* applied once.  One that was refused because its review was not ready may be applied by
\* such a copy, when the inputs of the review have changed back.
RefusedIsNotApplied ==
    \A r \in receipts :
        /\ r.command.key \notin memory.refused
        /\ \A s \in receipts : r.command.key = s.command.key => r = s

\* A command finds the version that the user saw when sending it: a save replaces what
\* was edited, and what becomes final or evidence is what was shown.
FoundAsSeen == \A r \in receipts : r.found = r.command.base

\* What was typed stays in the editor until it was saved or the user gave it up; or, if it
\* was typed while the result of a finalization was not known, until that has been read.
TypedIsKept ==
    memory.typed # Untyped => page.editor # NoEditor /\ page.editor.text = memory.typed.text

\* A page that may act shows the result of the command it was told of last.
ResultIsShown ==
    CanAct => CASE memory.told = NoCommand -> TRUE
                [] memory.told.op = "create" -> Len(Shown) > memory.told.id
                [] memory.told.op = "materialize" -> memory.told.id \in page.shown.evidence
                [] OTHER -> Shown[memory.told.id].revision > memory.told.base.revision
=============================================================================
